---- MODULE Spec2Model ----
(***************************************************************************)
(* Model of js/ble-protocol.js: the OTA frame codec, the Acknowledgment    *)
(* Mailbox (waitForAck / handleNotification), the notification router      *)
(* (createNotificationHandler), the Command Dispatcher as used for the     *)
(* activation command, and the OTA session (performOTAUpdate).             *)
(*                                                                         *)
(* Bytes are integers 0..255.  JavaScript arrays are 0-based; At(s, i) is  *)
(* the source's s[i].  The event loop is modelled by one action per task:  *)
(* a notification dispatch, a timer callback, the settlement of a write.   *)
(* Each action runs the task and every continuation (microtask) it makes   *)
(* runnable, up to the next point where the code awaits a later task.      *)
(* Timers are untimed: a callback set with setTimeout may run at any later *)
(* moment.                                                                 *)
(***************************************************************************)
EXTENDS Integers, Sequences, FiniteSets, Bags, TLC

\* ------------------------------------------------------------------------
\* Bounds of the model
\* ------------------------------------------------------------------------
\* largest firmware image, in bytes (two chunks: 128 + 1)
MaxFirmwareSize == 129
\* no further session is started once lastCommandTime has reached this value
MaxCommandTime == 2
\* longest payload enumerated for the codec harness
MaxPayloadLen == 2

\* ------------------------------------------------------------------------
\* Program constants
\* ------------------------------------------------------------------------
\* 0x73
START_BYTE == 115
\* 0x23
IDENTIFIER_BYTE == 35
\* 0x1F, the activation command
CMD_ACTIVATE == 31
\* 0x50, 0x51, 0x52
CMD_SIZE == 80
CMD_CHUNK == 81
CMD_FINALIZE == 82
\* 0x10
OTA_RESERVED == 16
\* chunk size fixed by connectAndPrepareOTA
PROTOCOL_CHUNK_SIZE == 128
\* initial value of otaChunkSize
DEFAULT_CHUNK_SIZE == 132
\* retry ceiling of the chunk loop
MAX_CHUNK_RETRIES == 3
\* the dispatcher re-sends while retryCount < 2
MAX_COMMAND_RETRY == 2

NULL == "null"
Byte == 0..255

\* ------------------------------------------------------------------------
\* Byte arithmetic
\* ------------------------------------------------------------------------
At(s, i) == s[i + 1]

RECURSIVE XorBits(_, _, _)
XorBits(a, b, n) ==
    IF n = 0 THEN 0
    ELSE (((a % 2) + (b % 2)) % 2) + 2 * XorBits(a \div 2, b \div 2, n - 1)

XorTable == [a \in Byte |-> [b \in Byte |-> XorBits(a, b, 8)]]

\* a ^ b on bytes
Xor(a, b) == XorTable[a][b]

\* the XOR of bytes s[lo-1 .. hi-1] (0 for an empty range).  The source folds
\* from the left; XOR is associative, so the range is halved here to keep the
\* evaluation shallow.
RECURSIVE XorRange(_, _, _)
XorRange(s, lo, hi) ==
    IF lo > hi THEN 0
    ELSE IF lo = hi THEN s[lo]
    ELSE LET mid == (lo + hi) \div 2
         IN  Xor(XorRange(s, lo, mid), XorRange(s, mid + 1, hi))

\* the XOR of bytes s[0 .. n-1]
XorPrefix(s, n) == XorRange(s, 1, n)

calculateXORChecksum(bytes) == XorPrefix(bytes, Len(bytes))

\* the four little-endian bytes of a 32-bit value: v & 0xFF, (v >> 8) & 0xFF..
\* (for sizes and offsets, which stay below 2^31 here)
LE32(v) == << v % 256, (v \div 256) % 256, (v \div 65536) % 256,
              (v \div 16777216) % 256 >>

\* ------------------------------------------------------------------------
\* Frame codec
\* ------------------------------------------------------------------------
\* the length field of an OTA frame: CMD + RESERVED + PAYLOAD + CHECKSUM
OTALengthField(payload) == 1 + 1 + Len(payload) + 1

createBLEOTAFrame(command, reserved, payload) ==
    LET totalLength == OTALengthField(payload)
        frame == << START_BYTE, totalLength % 256, (totalLength \div 256) % 256,
                    command, reserved >> \o payload
    IN  Append(frame, calculateXORChecksum(frame))

\* an encoder that leaves the checksum byte out of the length
createCommandMessage_LenFour(commandType, payload) ==
    LET messageLength == 4 + Len(payload)
        message == << START_BYTE, messageLength % 256, IDENTIFIER_BYTE,
                      commandType >> \o payload
    IN  Append(message, calculateXORChecksum(message))

\* header.length + payloadArray.length + 1; new Uint8Array(..) keeps the low
\* 8 bits of every element
createCommandMessage(commandType, payload) ==
    LET messageLength == 4 + Len(payload) + 1
        message == << START_BYTE, messageLength % 256, IDENTIFIER_BYTE,
                      commandType >> \o payload
    IN  Append(message, calculateXORChecksum(message))

\* an encoder whose checksum covers the start and length bytes too
createMeterIPMessage_FullScope(commandType, payload) ==
    LET len == 4 + Len(payload)
        message == << START_BYTE, len % 256, IDENTIFIER_BYTE, commandType >>
                   \o payload
    IN  Append(message, calculateXORChecksum(message))

\* LEN = 4 + payload length; XOR over [0x23, cmd, payload] only
createMeterIPMessage(commandType, payload) ==
    LET len == 4 + Len(payload)
        message == << START_BYTE, len % 256, IDENTIFIER_BYTE, commandType >>
                   \o payload
    IN  Append(message, XorRange(message, 3, Len(message)))

\* handleNotification without its length test
decodeOTA_NoLength(value) ==
    IF Len(value) < 6 \/ At(value, 0) # START_BYTE
    THEN [status |-> "BadHeader", cmd |-> 0, reserved |-> 0, payload |-> << >>]
    ELSE IF XorPrefix(value, Len(value) - 1) # At(value, Len(value) - 1)
    THEN [status |-> "BadChecksum", cmd |-> 0, reserved |-> 0, payload |-> << >>]
    ELSE [status |-> "Ack", cmd |-> At(value, 3), reserved |-> At(value, 4),
          payload |-> SubSeq(value, 6, Len(value) - 1)]

\* handleNotification without its checksum test
decodeOTA_NoChecksum(value) ==
    IF Len(value) < 6 \/ At(value, 0) # START_BYTE
    THEN [status |-> "BadHeader", cmd |-> 0, reserved |-> 0, payload |-> << >>]
    ELSE IF At(value, 1) + 256 * At(value, 2) # Len(value)
    THEN [status |-> "LengthMismatch", cmd |-> 0, reserved |-> 0, payload |-> << >>]
    ELSE [status |-> "Ack", cmd |-> At(value, 3), reserved |-> At(value, 4),
          payload |-> SubSeq(value, 6, Len(value) - 1)]

\* The parsing half of handleNotification: the outcome of its three checks
\* and, when they pass, the ack it hands to the pending resolver.
decodeOTA(value) ==
    IF Len(value) < 6 \/ At(value, 0) # START_BYTE
    THEN [status |-> "BadHeader", cmd |-> 0, reserved |-> 0, payload |-> << >>]
    ELSE IF At(value, 1) + 256 * At(value, 2) # Len(value)
    THEN [status |-> "LengthMismatch", cmd |-> 0, reserved |-> 0, payload |-> << >>]
    ELSE IF XorPrefix(value, Len(value) - 1) # At(value, Len(value) - 1)
    THEN [status |-> "BadChecksum", cmd |-> 0, reserved |-> 0, payload |-> << >>]
    ELSE [status |-> "Ack", cmd |-> At(value, 3), reserved |-> At(value, 4),
          payload |-> SubSeq(value, 6, Len(value) - 1)]

\* ------------------------------------------------------------------------
\* Firmware analyzer (checksum part) and the frames of the OTA steps
\* ------------------------------------------------------------------------
\* A 32-bit unsigned value is kept as its two 16-bit halves [hi, lo].
Word32(hi, lo) == [hi |-> hi, lo |-> lo]

\* (a + b) mod 2^32
Add32(a, b) ==
    LET lo == a.lo + b.lo
    IN  Word32((a.hi + b.hi + (lo \div 65536)) % 65536, lo % 65536)

\* the sum of bytes[lo-1 .. hi-1] modulo 2^32 (addition modulo 2^32 is
\* associative; the range is halved to keep the evaluation shallow)
RECURSIVE SumRange(_, _, _)
SumRange(bytes, lo, hi) ==
    IF lo > hi THEN Word32(0, 0)
    ELSE IF lo = hi THEN Word32(0, bytes[lo])
    ELSE LET mid == (lo + hi) \div 2
         IN  Add32(SumRange(bytes, lo, mid), SumRange(bytes, mid + 1, hi))

\* the sum of bytes[0 .. n-1] modulo 2^32
SumPrefix(bytes, n) == SumRange(bytes, 1, n)

\* the sum returned without the complement
analyzeFirmwareChecksum_NoComplement(bytes) == SumPrefix(bytes, Len(bytes))

\* sum >>> 0, then (~sum) >>> 0
analyzeFirmwareChecksum(bytes) ==
    LET sum == SumPrefix(bytes, Len(bytes))
    IN  Word32(65535 - sum.hi, 65535 - sum.lo)

\* the four little-endian bytes of a 32-bit value held as halves
LE32W(w) == << w.lo % 256, w.lo \div 256, w.hi % 256, w.hi \div 256 >>

ActivationMagic == << 10, 11, 12 >>

ActivationFrame == createCommandMessage(CMD_ACTIVATE, ActivationMagic)

SizeFrame(firmwareSize, checksum) ==
    createBLEOTAFrame(CMD_SIZE, OTA_RESERVED, LE32(firmwareSize) \o LE32W(checksum))

ChunkFrame(chunkData, off) ==
    createBLEOTAFrame(CMD_CHUNK, OTA_RESERVED, LE32(off) \o chunkData)

FinalizeFrame == createBLEOTAFrame(CMD_FINALIZE, OTA_RESERVED, << >>)

Min(a, b) == IF a < b THEN a ELSE b

\* a slice that runs to the end of the buffer
ChunkAt_ToEnd(data, off, chunkSize) == SubSeq(data, off + 1, Len(data))

\* firmwareData.slice(offset, Math.min(offset + otaChunkSize, byteLength))
ChunkAt(data, off, chunkSize) ==
    SubSeq(data, off + 1, Min(off + chunkSize, Len(data)))

\* Math.ceil(byteLength / otaChunkSize)
TotalChunks(byteLength, chunkSize) == (byteLength + chunkSize - 1) \div chunkSize

\* ------------------------------------------------------------------------
\* Decisions taken by the OTA steps on the value a wait resolved to
\* ------------------------------------------------------------------------
\* a resolver that does not compare the cmd
ResolverValue_AnyCmd(expectedCmd, a) == a

\* the resolver installed by waitForAck, applied to a delivered ack
ResolverValue(expectedCmd, a) ==
    IF a.cmd = expectedCmd
    THEN a
    ELSE [ok |-> FALSE, cmd |-> 0, reserved |-> 0,
          payload |-> << >>, reason |-> "unexpected cmd"]

TimeoutValue ==
    [ok |-> FALSE, cmd |-> 0, reserved |-> 0, payload |-> << >>, reason |-> "timeout"]

\* a router that takes any non-empty payload for the confirmation
ActivationConfirmed_NonEmpty(payload) == Len(payload) >= 1

\* router, step 1: payload.length >= 1 && payload[0] === 0x01
ActivationConfirmed(payload) == Len(payload) >= 1 /\ At(payload, 0) = 1

\* sendFirmwareSize taking every resolved wait for success
SizeAckAccepted_Always(a) == TRUE

\* sendFirmwareSize returns true iff ack.ok (the checksum echo is only logged)
SizeAckAccepted(a) == a.ok

\* sendFirmwareChunk taking every resolved wait for success
ChunkAckAccepted_Always(a) == TRUE

\* sendFirmwareChunk asking for an echoed offset in the ack
ChunkAckAccepted_NeedsEcho(a) == a.ok /\ Len(a.payload) >= 4

\* sendFirmwareChunk returns true iff ack.ok (the offset echo is only logged)
ChunkAckAccepted(a) == a.ok

\* sendOTAFinalize without the test of the status byte
FinalizeSuccess_AnyAck(a) == a.ok

\* sendOTAFinalize returns true iff ack.ok and payload[0] === 0x01
FinalizeSuccess(a) ==
    a.ok /\ Len(a.payload) >= 1 /\ At(a.payload, 0) = 1

\* the retry ceiling off by one
RetriesExhausted_Four(rc) == rc >= MAX_CHUNK_RETRIES + 1

\* if (retryCount >= 3) throw
RetriesExhausted(rc) == rc >= MAX_CHUNK_RETRIES

\* the 0-based chunk index in the reason
FailedChunkNumber_ZeroBased(idx) == idx

\* the chunk number named in "Failed to send chunk N after 3 retries"
FailedChunkNumber(idx) == idx + 1

\* ------------------------------------------------------------------------
\* State
\* ------------------------------------------------------------------------
VARIABLES
    \* module globals of ble-protocol.js
    otaInProgress, otaTotalChunks, txCharacteristic, otaChunkSize,
    pendingAckResolve, firmwareChecksum, firmwareData,
    \* window.otaActivationResolve, window.currentCommand, window.lastCommandTime
    otaActivationResolve, currentCommand, lastCommandTime,
    \* performOTAUpdate: where it is suspended, its locals, the error it caught
    pc, offset, chunkIndex, retryCount, failReason,
    \* sendOTAFinalize: const ack = await waitForAck(0x52, 3000)
    ack,
    \* event loop: callbacks set with setTimeout, writes of sendCommand not yet
    \* settled, whether handleNotification is subscribed
    timers, pendingWrites, listening,
    \* connection collaborator: isConnected(), number of writable characteristics
    connected, writeChars,
    \* history of the session; whether the expected ack arrived since the
    \* current wait began
    hist, answered,
    \* harness of the codec functions
    codec,
    \* what the step just taken was: for a dispatched notification, what the
    \* two listeners did with it (recorded under TracedSpec only)
    note

vars == << otaInProgress, otaTotalChunks, txCharacteristic, otaChunkSize,
           pendingAckResolve, firmwareChecksum, firmwareData,
           otaActivationResolve, currentCommand, lastCommandTime,
           pc, offset, chunkIndex, retryCount, failReason, ack,
           timers, pendingWrites, listening, connected, writeChars,
           hist, answered, codec, note >>

prepVars == << otaTotalChunks, txCharacteristic, otaChunkSize, firmwareChecksum,
               listening >>
cmdVars == << currentCommand, lastCommandTime, pendingWrites >>
loopVars == << pc, offset, chunkIndex, retryCount, failReason, otaInProgress >>
envVars == << connected, writeChars, firmwareData, codec >>

\* pendingAckResolve is << >> (null) or << expectedCmd >> (the closure)
NoResolver == << >>
\* firmwareData is << >> (null) or << bytes >> (the ArrayBuffer)
NoFirmware == << >>
Firmware == firmwareData[1]

ACTIVATION_NAME == "Upgrade Mode Activation"

NoAck == [ok |-> FALSE, cmd |-> 0, reserved |-> 0, payload |-> << >>, reason |-> ""]
NoFailure == [msg |-> "", chunk |-> 0]
\* no step recorded
NoNote == [kind |-> "none", bytes |-> << >>, step |-> "idle", slot |-> << >>,
           waiter |-> FALSE, marker |-> "null", activation |-> "none",
           verdict |-> "none", mailbox |-> << >>, resolved |-> << >>,
           sink |-> FALSE]
CodecIdle == [phase |-> "off", cmd |-> 0, reserved |-> 0, payload |-> << >>,
              frame |-> << >>, decoded |-> decodeOTA(<< >>)]

\* ------------------------------------------------------------------------
\* Inputs
\* ------------------------------------------------------------------------
MakeFirmware(n) == [i \in 1..n |-> (7 * i + 3) % 256]
FirmwareSizes == {0, 1, PROTOCOL_CHUNK_SIZE, MaxFirmwareSize}
Firmwares == {MakeFirmware(n) : n \in FirmwareSizes}

\* a device reply in Standard Command Frame layout
StdReply(cmd, payload) == createCommandMessage(cmd, payload)

\* a device ack as handleNotification accepts it: the length field holds the
\* number of bytes of the whole notification
DeviceAck(cmd, reserved, payload) ==
    LET n == Len(payload) + 6
        body == << START_BYTE, n % 256, n \div 256, cmd, reserved >> \o payload
    IN  Append(body, calculateXORChecksum(body))

\* the frame with its trailing checksum byte changed
Corrupt(frame) ==
    [frame EXCEPT ![Len(frame)] = Xor(frame[Len(frame)], 1)]

\* the frame with another first byte (checksum and length left as they were)
WrongStart(frame) == [frame EXCEPT ![1] = 0]

Notifications ==
    { StdReply(CMD_ACTIVATE, << 1 >>), StdReply(CMD_ACTIVATE, << 0 >>),
      StdReply(CMD_ACTIVATE, << >>) }
    \cup { DeviceAck(CMD_SIZE, OTA_RESERVED, << >>),
           DeviceAck(CMD_CHUNK, OTA_RESERVED, << >>),
           DeviceAck(CMD_FINALIZE, OTA_RESERVED, << 1 >>),
           DeviceAck(CMD_FINALIZE, OTA_RESERVED, << 0 >>),
           DeviceAck(CMD_FINALIZE, OTA_RESERVED, << >>) }
    \cup { DeviceAck(255, 1, << 0 >>),
           Corrupt(DeviceAck(CMD_CHUNK, OTA_RESERVED, << >>)),
           createBLEOTAFrame(CMD_CHUNK, OTA_RESERVED, << >>),
           << START_BYTE >> }

\* further frames for the router: replies and acks that fail one or several of
\* the checks, and a reply to a generic command (cmd 0x03)
TracedNotifications ==
    Notifications
    \cup { Corrupt(StdReply(CMD_ACTIVATE, << 1 >>)),
           Corrupt(createBLEOTAFrame(CMD_CHUNK, OTA_RESERVED, << >>)),
           WrongStart(DeviceAck(CMD_CHUNK, OTA_RESERVED, << >>)),
           StdReply(3, << 0 >>) }

\* the well-formed replies and acks, and a reply to a generic command
RoutedNotifications ==
    { StdReply(CMD_ACTIVATE, << 1 >>), StdReply(CMD_ACTIVATE, << 0 >>),
      DeviceAck(CMD_SIZE, OTA_RESERVED, << >>),
      DeviceAck(CMD_CHUNK, OTA_RESERVED, << >>),
      DeviceAck(CMD_FINALIZE, OTA_RESERVED, << 1 >>),
      StdReply(3, << 0 >>) }

\* The checksum of every image and the chunk frame of every image, chunk size
\* and offset, computed once with the operators above.
FirmwareChecksums == [fw \in Firmwares |-> analyzeFirmwareChecksum(fw)]

ChunkFrames ==
    [fw \in Firmwares |->
        [size \in {PROTOCOL_CHUNK_SIZE, DEFAULT_CHUNK_SIZE} |->
            [off \in 0..Len(fw) |-> ChunkFrame(ChunkAt(fw, off, size), off)]]]

\* ------------------------------------------------------------------------
\* Timers and history events
\* ------------------------------------------------------------------------
\* A pending setTimeout callback.  kind "ack": the callback of waitForAck,
\* n = 1 while the promise of its wait is unsettled and 0 once it is settled
\* (its resolve is then without effect).  kind "activation": the 5000 ms
\* callback of sendOTAActivate.  kind "cmd" / "cmdErr": the 3000 ms / 1000 ms
\* callbacks of sendCommand, n = its retryCount, at = its lastCommandTime.
\* kind "backoff": the 100 ms pause of the chunk loop.
Timer(kind, n, at) == [kind |-> kind, n |-> n, at |-> at]
One(t) == SetToBag({t})
TimersOf(kind) == {t \in BagToSet(timers) : t.kind = kind}

\* ------------------------------------------------------------------------
\* History of a session (kept for the properties, read by no action):
\*   last      the frame handed to the transport most recently
\*   writes    how many frames of each stage were handed to the transport
\*   outcome   how the activation, size and finalize steps ended
\*   chunks    per chunk offset: frames written with it, attempts that failed,
\*             whether its ack was accepted, the first frame written with it
\*   firsts    the offsets of the chunk frames, in the order in which each
\*             offset was written for the first time
\* ------------------------------------------------------------------------
Stages == {"activation", "size", "chunk", "finalize"}

NoHistory ==
    [last |-> << >>,
     writes |-> [st \in Stages |-> 0],
     outcome |-> [st \in Stages \ {"chunk"} |-> "none"],
     chunks |-> << >>,
     firsts |-> << >>]

\* the stage a frame belongs to, read from its bytes
FrameStage(frame) ==
    IF At(frame, 2) = IDENTIFIER_BYTE THEN "activation"
    ELSE IF At(frame, 3) = CMD_SIZE THEN "size"
    ELSE IF At(frame, 3) = CMD_CHUNK THEN "chunk"
    ELSE "finalize"

\* the offset field of a chunk frame (payload bytes 0..3, little-endian)
FrameOffset(frame) ==
    At(frame, 5) + 256 * At(frame, 6) + 65536 * At(frame, 7)
    + 16777216 * At(frame, 8)

\* the data bytes of a chunk frame
FrameData(frame) == SubSeq(frame, 10, Len(frame) - 1)

NoChunk == [writes |-> 0, failures |-> 0, acked |-> FALSE, first |-> << >>]
ChunkHist(h, off) == IF off \in DOMAIN h.chunks THEN h.chunks[off] ELSE NoChunk

\* a frame is handed to the transport
W(h, frame) ==
    LET st == FrameStage(frame)
        off == FrameOffset(frame)
        c == ChunkHist(h, off)
    IN  [h EXCEPT !.last = frame,
                  !.writes[st] = @ + 1,
                  !.chunks = IF st = "chunk"
                             THEN (off :> [c EXCEPT !.writes = @ + 1,
                                                    !.first = IF c.writes = 0
                                                              THEN frame ELSE @])
                                  @@ @
                             ELSE @,
                  !.firsts = IF st = "chunk" /\ c.writes = 0
                             THEN Append(@, off) ELSE @]

\* a step ended: ok tells whether its wait resolved to a verified ack of the
\* expected cmd (for the activation: to a reply with payload byte 0x01); it
\* is FALSE for a timeout, an unexpected cmd and a rejected write
R(h, stage, off, ok) ==
    IF stage = "chunk"
    THEN LET c == ChunkHist(h, off)
         IN  [h EXCEPT !.chunks = (off :> [c EXCEPT !.acked = @ \/ ok,
                                                   !.failures = IF ok THEN @
                                                                ELSE @ + 1])
                                  @@ @]
    ELSE [h EXCEPT !.outcome[stage] = IF ok THEN "ok" ELSE "failed"]

WaitPcs == {"size_wait", "chunk_wait", "fin_wait"}
StageOf(p) == CASE p \in {"size_write", "size_wait"} -> "size"
                [] p \in {"chunk_write", "chunk_wait", "backoff"} -> "chunk"
                [] p \in {"fin_write", "fin_wait"} -> "finalize"
                [] OTHER -> "activation"

SessionInit ==
    /\ otaInProgress = FALSE
    /\ otaTotalChunks = 0
    /\ txCharacteristic = FALSE
    /\ otaChunkSize = DEFAULT_CHUNK_SIZE
    /\ pendingAckResolve = NoResolver
    /\ firmwareChecksum = Word32(0, 0)
    /\ firmwareData = NoFirmware
    /\ otaActivationResolve = FALSE
    /\ currentCommand = NULL
    /\ lastCommandTime = 0
    /\ pc = "idle"
    /\ offset = 0
    /\ chunkIndex = 0
    /\ retryCount = 0
    /\ failReason = NoFailure
    /\ ack = NoAck
    /\ timers = EmptyBag
    /\ pendingWrites = EmptyBag
    /\ listening = FALSE
    /\ connected = TRUE
    /\ writeChars \in {0, 1}
    /\ hist = NoHistory
    /\ answered = FALSE
    /\ note = NoNote

Init ==
    /\ SessionInit
    /\ codec = CodecIdle

\* ------------------------------------------------------------------------
\* performOTAUpdate: the code run between two suspensions.  Each operator
\* below fixes pc, offset, chunkIndex, retryCount, failReason, otaInProgress,
\* hist and timers of the next state; tr and tm are the history and the timers
\* as the running task has left them so far.
\* ------------------------------------------------------------------------
\* catch (error) { log(..error.message) } finally { otaInProgress = false }
SessionFailed(msg, k, tr, tm) ==
    /\ pc' = "failed"
    /\ failReason' = [msg |-> msg, chunk |-> k]
    /\ otaInProgress' = FALSE
    /\ hist' = tr
    /\ timers' = tm
    /\ UNCHANGED << offset, chunkIndex, retryCount >>

\* the code after sendOTAFinalize returned true
SessionCompleted(tr, tm) ==
    /\ pc' = "completed"
    /\ otaInProgress' = FALSE
    /\ hist' = tr
    /\ timers' = tm
    /\ UNCHANGED << offset, chunkIndex, retryCount, failReason >>

\* sendFirmwareSize up to its await of the write
SendSize(tr, tm) ==
    IF ~txCharacteristic
    THEN SessionFailed("Failed to send firmware size", 0, tr, tm)
    ELSE /\ pc' = "size_write"
         /\ hist' = W(tr, SizeFrame(Len(Firmware), firmwareChecksum))
         /\ timers' = tm
         /\ UNCHANGED << offset, chunkIndex, retryCount, failReason, otaInProgress >>

\* sendOTAFinalize up to its await of the write
SendFinalize(off, idx, rc, tr, tm) ==
    IF ~txCharacteristic
    THEN /\ SessionFailed("Failed to finalize OTA update", 0, tr, tm)
    ELSE /\ pc' = "fin_write"
         /\ hist' = W(tr, FinalizeFrame)
         /\ timers' = tm
         /\ offset' = off
         /\ chunkIndex' = idx
         /\ retryCount' = rc
         /\ UNCHANGED << failReason, otaInProgress >>

\* the catch block of the chunk loop: count the failed attempt, give up at
\* the third, otherwise pause 100 ms
ChunkAttemptFailed(off, idx, rc, tr, tm) ==
    LET n == rc + 1 IN
    /\ offset' = off
    /\ chunkIndex' = idx
    /\ retryCount' = n
    /\ hist' = tr
    /\ IF RetriesExhausted(n)
       THEN /\ pc' = "failed"
            /\ failReason' = [msg |-> "Failed to send chunk after 3 retries",
                              chunk |-> FailedChunkNumber(idx)]
            /\ otaInProgress' = FALSE
            /\ timers' = tm
       ELSE /\ pc' = "backoff"
            /\ timers' = tm (+) One(Timer("backoff", 0, 0))
            /\ UNCHANGED << failReason, otaInProgress >>

\* sendFirmwareChunk up to its await of the write
SendChunk(off, idx, rc, tr, tm) ==
    IF ~txCharacteristic
    THEN ChunkAttemptFailed(off, idx, rc, tr, tm)
    ELSE /\ pc' = "chunk_write"
         /\ hist' = W(tr, ChunkFrames[Firmware][otaChunkSize][off])
         /\ timers' = tm
         /\ offset' = off
         /\ chunkIndex' = idx
         /\ retryCount' = rc
         /\ UNCHANGED << failReason, otaInProgress >>

\* while (offset < firmwareData.byteLength) { retryCount = 0 ... }, then step 4
ChunkLoop(off, idx, tr, tm) ==
    IF off < Len(Firmware)
    THEN SendChunk(off, idx, 0, tr, tm)
    ELSE SendFinalize(off, idx, retryCount, tr, tm)

\* the continuation of "const ack = await waitForAck(..)" in the step that is
\* waiting, given the value v the promise resolved to
Resume(v, tm) ==
    LET stage == StageOf(pc) IN
    CASE pc = "size_wait" ->
           LET tr == R(hist, stage, 0, v.ok) IN
           IF SizeAckAccepted(v)
           THEN ChunkLoop(0, 0, tr, tm)
           ELSE SessionFailed("Failed to send firmware size", 0, tr, tm)
      [] pc = "chunk_wait" ->
           LET tr == R(hist, stage, offset, v.ok) IN
           IF ChunkAckAccepted(v)
           THEN ChunkLoop(offset + Len(ChunkAt(Firmware, offset, otaChunkSize)),
                          chunkIndex + 1, tr, tm)
           ELSE ChunkAttemptFailed(offset, chunkIndex, retryCount, tr, tm)
      [] pc = "fin_wait" ->
           LET tr == R(hist, stage, 0, v.ok) IN
           IF FinalizeSuccess(v)
           THEN SessionCompleted(tr, tm)
           ELSE SessionFailed("Failed to finalize OTA update", 0, tr, tm)

\* the continuation of "await sendOTAActivate()"
\* (armed: the history's own reading of the reply, FALSE for a timeout)
ResumeActivation(ok, armed, tm) ==
    LET tr == R(hist, "activation", 0, armed) IN
    IF ok
    THEN SendSize(tr, tm)
    ELSE SessionFailed("Failed to activate upgrade mode", 0, tr, tm)

\* ------------------------------------------------------------------------
\* sendCommand(0x1F, 'Upgrade Mode Activation', [0x0A, 0x0B, 0x0C], rc) up to
\* its await of the write, as a function of the values it may change
\* ------------------------------------------------------------------------
sendCommand(rc, cur, last, tr, pw) ==
    IF ~connected
    THEN [cur |-> cur, last |-> last, tr |-> tr, pw |-> pw]
    ELSE IF writeChars = 0
    THEN [cur |-> ACTIVATION_NAME, last |-> last + 1, tr |-> tr, pw |-> pw]
    ELSE [cur |-> ACTIVATION_NAME, last |-> last + 1,
          tr |-> W(tr, ActivationFrame),
          pw |-> pw (+) One(Timer("cmd", rc, last + 1))]

\* ------------------------------------------------------------------------
\* Actions: one per task of the event loop
\* ------------------------------------------------------------------------
\* reader.onload of handleFirmwareFile: a firmware file is selected
handleFirmwareFile(fw) ==
    /\ pc = "idle"
    /\ firmwareData = NoFirmware
    /\ firmwareData' = << fw >>
    /\ UNCHANGED << otaInProgress, otaTotalChunks, txCharacteristic, otaChunkSize,
                    pendingAckResolve, firmwareChecksum, otaActivationResolve,
                    currentCommand, lastCommandTime, pc, offset, chunkIndex,
                    retryCount, failReason, ack, timers, pendingWrites, listening,
                    connected, writeChars, hist, answered, codec >>
    /\ note' = NoNote

\* a dispatcher that retries without limit
MayRetry_Always(rc) == TRUE

\* sendCommand: if (retryCount < 2), in the 3000 ms callback and in the catch
MayRetry(rc) == rc < MAX_COMMAND_RETRY

\* a guard that lets a second call through
AlreadyInProgress_Never == FALSE

\* performOTAUpdate: if (otaInProgress) return
AlreadyInProgress == otaInProgress

\* A call of performOTAUpdate, up to "await connectAndPrepareOTA()".  The call
\* returns at once when no firmware is loaded or a session is in progress.  A
\* behaviour holds one session: no call is made after the session has ended.
StartOrReturn ==
    /\ pc \notin {"completed", "failed"}
    /\ IF firmwareData = NoFirmware \/ AlreadyInProgress
       THEN UNCHANGED << otaInProgress, pc >>
       ELSE /\ otaInProgress' = TRUE
            /\ pc' = "preparing"
    /\ UNCHANGED << prepVars, cmdVars, envVars, pendingAckResolve,
                    otaActivationResolve, offset, chunkIndex, retryCount,
                    failReason, ack, timers, hist, answered >>

performOTAUpdate ==
    /\ StartOrReturn
    /\ note' = NoNote

\* the same call, written down
Call ==
    /\ StartOrReturn
    /\ note' = [NoNote EXCEPT !.kind = "call", !.step = pc,
                              !.slot = pendingAckResolve]

\* connectAndPrepareOTA succeeds; performOTAUpdate goes on to sendOTAActivate,
\* which installs the activation waiter, calls sendCommand and sets its timer
connectAndPrepareOTA ==
    /\ pc = "preparing"
    /\ connected
    /\ txCharacteristic' = TRUE
    /\ listening' = TRUE
    /\ otaChunkSize' = PROTOCOL_CHUNK_SIZE
    /\ firmwareChecksum' = FirmwareChecksums[Firmware]
    /\ otaTotalChunks' = TotalChunks(Len(Firmware), PROTOCOL_CHUNK_SIZE)
    /\ otaActivationResolve' = TRUE
    /\ LET sc == sendCommand(0, "0x1F", lastCommandTime, hist, pendingWrites) IN
         /\ currentCommand' = sc.cur
         /\ lastCommandTime' = sc.last
         /\ hist' = sc.tr
         /\ pendingWrites' = sc.pw
    /\ timers' = timers (+) One(Timer("activation", 1, 0))
    /\ pc' = "activating"
    /\ UNCHANGED << envVars, pendingAckResolve, offset, chunkIndex, retryCount,
                    failReason, otaInProgress, ack, answered >>
    /\ note' = NoNote

\* connectAndPrepareOTA throws: before the TX characteristic was stored
\* (txSet = FALSE) or after it (txSet = TRUE)
PrepareFailed(txSet) ==
    /\ pc = "preparing"
    /\ txCharacteristic' = (txCharacteristic \/ txSet)
    /\ SessionFailed("connectAndPrepareOTA failed", 0, hist, timers)
    /\ UNCHANGED << cmdVars, envVars, otaTotalChunks, otaChunkSize,
                    firmwareChecksum, listening, pendingAckResolve,
                    otaActivationResolve, ack, answered >>
    /\ note' = NoNote

\* waitForAck(expectedCmd, ..): install the resolver, set the timer
waitForAck(expectedCmd, nextPc) ==
    /\ pendingAckResolve' = << expectedCmd >>
    /\ timers' = timers (+) One(Timer("ack", 1, 0))
    /\ pc' = nextPc
    /\ answered' = FALSE
    /\ UNCHANGED << prepVars, cmdVars, envVars, otaActivationResolve, offset,
                    chunkIndex, retryCount, failReason, otaInProgress, ack, hist >>
    /\ note' = NoNote

\* the write of the size frame is accepted: sendFirmwareSize waits for 0x50
SizeWriteAccepted ==
    /\ pc = "size_write"
    /\ connected
    /\ waitForAck(CMD_SIZE, "size_wait")

\* the write of the size frame is rejected: catch, return false
SizeWriteRejected ==
    /\ pc = "size_write"
    /\ SessionFailed("Failed to send firmware size", 0,
                     R(hist, "size", offset, FALSE), timers)
    /\ UNCHANGED << prepVars, cmdVars, envVars, pendingAckResolve,
                    otaActivationResolve, ack, answered >>
    /\ note' = NoNote

ChunkWriteAccepted ==
    /\ pc = "chunk_write"
    /\ connected
    /\ waitForAck(CMD_CHUNK, "chunk_wait")

ChunkWriteRejected ==
    /\ pc = "chunk_write"
    /\ ChunkAttemptFailed(offset, chunkIndex, retryCount,
                          R(hist, "chunk", offset, FALSE), timers)
    /\ UNCHANGED << prepVars, cmdVars, envVars, pendingAckResolve,
                    otaActivationResolve, ack, answered >>
    /\ note' = NoNote

FinalizeWriteAccepted ==
    /\ pc = "fin_write"
    /\ connected
    /\ waitForAck(CMD_FINALIZE, "fin_wait")

FinalizeWriteRejected ==
    /\ pc = "fin_write"
    /\ SessionFailed("Failed to finalize OTA update", 0,
                     R(hist, "finalize", offset, FALSE), timers)
    /\ UNCHANGED << prepVars, cmdVars, envVars, pendingAckResolve,
                    otaActivationResolve, ack, answered >>
    /\ note' = NoNote

\* the 100 ms pause of the chunk loop ends: the same chunk is sent again
BackoffTimer(t) ==
    /\ pc = "backoff"
    /\ t \in TimersOf("backoff")
    /\ SendChunk(offset, chunkIndex, retryCount, hist, timers (-) One(t))
    /\ UNCHANGED << prepVars, cmdVars, envVars, pendingAckResolve,
                    otaActivationResolve, ack, answered >>
    /\ note' = NoNote

\* the timer of a wait whose promise has just been settled stays pending, but
\* its resolve has no effect any more
MarkSettled(tm) ==
    IF BagIn(Timer("ack", 1, 0), tm)
    THEN (tm (-) One(Timer("ack", 1, 0))) (+) One(Timer("ack", 0, 0))
    ELSE tm

ExpectedCmd(p) == CASE p = "size_wait" -> CMD_SIZE
                    [] p = "chunk_wait" -> CMD_CHUNK
                    [] p = "fin_wait" -> CMD_FINALIZE
                    [] OTHER -> 0

\* router step 1: is this notification taken as the activation reply
IsActivationReply(bytes) ==
    /\ otaActivationResolve
    /\ Len(bytes) >= 5
    /\ At(bytes, 0) = START_BYTE
    /\ At(bytes, 2) = IDENTIFIER_BYTE
    /\ At(bytes, 3) = CMD_ACTIVATE

\* a router whose step 2 takes every frame of 6 bytes or more that starts with
\* 0x73
IsSentinelFrame_AnyFrame(bytes) ==
    /\ Len(bytes) >= 6
    /\ At(bytes, 0) = START_BYTE

\* router step 2: the frame is handed to handleOTAAck
IsSentinelFrame(bytes) ==
    /\ Len(bytes) >= 6
    /\ At(bytes, 0) = START_BYTE
    /\ At(bytes, 1) + 256 * At(bytes, 2) > 5
    /\ At(bytes, 3) = 255
    /\ At(bytes, 4) = 1

\* handleNotification hands an ack to the resolver in the slot
Delivers(bytes) ==
    /\ listening
    /\ decodeOTA(bytes).status = "Ack"
    /\ pendingAckResolve # NoResolver

\* the object handed to pendingAckResolve
DeliveredAck(bytes) ==
    LET d == decodeOTA(bytes)
    IN  [ok |-> TRUE, cmd |-> d.cmd, reserved |-> d.reserved,
         payload |-> d.payload, reason |-> ""]

\* router step 3: the frame is passed to the response parser as the answer to
\* window.currentCommand
ForwardedToSink(bytes) ==
    /\ ~IsActivationReply(bytes)
    /\ ~IsSentinelFrame(bytes)
    /\ currentCommand # NULL

\* a resolver that stays in the slot after it was called
SlotAfterDelivery_Kept == pendingAckResolve

\* handleNotification empties the slot after calling the resolver
SlotAfterDelivery == NoResolver

\* A notification is dispatched: first to the handler made by
\* createNotificationHandler, then (once subscribed) to handleNotification.
Dispatch(bytes) ==
    /\ connected
    /\ LET delivered == Delivers(bytes)
           v == ResolverValue(pendingAckResolve[1], DeliveredAck(bytes))
       IN
       IF IsActivationReply(bytes)
       THEN /\ otaActivationResolve' = FALSE
            /\ currentCommand' = NULL
            /\ pendingAckResolve' =
                   IF delivered THEN SlotAfterDelivery ELSE pendingAckResolve
            /\ IF pc = "activating"
               THEN ResumeActivation(
                        ActivationConfirmed(SubSeq(bytes, 5, Len(bytes) - 1)),
                        Len(bytes) >= 6 /\ bytes[5] = 1,
                        timers)
               ELSE UNCHANGED << loopVars, hist, timers >>
            /\ UNCHANGED << ack, answered >>
       ELSE /\ currentCommand' =
                   IF IsSentinelFrame(bytes) THEN currentCommand ELSE NULL
            /\ UNCHANGED otaActivationResolve
            /\ IF delivered
               THEN /\ pendingAckResolve' = SlotAfterDelivery
                    /\ answered' = FALSE
                    /\ IF pc \in WaitPcs
                       THEN /\ ack' = (IF pc = "fin_wait" THEN v ELSE ack)
                            /\ Resume(v, MarkSettled(timers))
                       ELSE UNCHANGED << ack, loopVars, hist, timers >>
               ELSE /\ answered' = (answered \/ (/\ pc \in WaitPcs
                                                   /\ listening
                                                   /\ decodeOTA(bytes).status = "Ack"
                                                   /\ decodeOTA(bytes).cmd
                                                        = ExpectedCmd(pc)))
                    /\ UNCHANGED << pendingAckResolve, ack, loopVars, hist,
                                    timers >>
    /\ UNCHANGED << prepVars, envVars, lastCommandTime, pendingWrites >>

Notify(bytes) ==
    /\ Dispatch(bytes)
    /\ note' = NoNote

\* the same step, with what the listeners did written down
Route(bytes) ==
    /\ Dispatch(bytes)
    /\ note' = [kind |-> "notification",
                bytes |-> bytes,
                step |-> pc,
                slot |-> pendingAckResolve,
                waiter |-> otaActivationResolve,
                marker |-> currentCommand,
                activation |->
                    IF ~IsActivationReply(bytes) THEN "none"
                    ELSE IF ActivationConfirmed(SubSeq(bytes, 5, Len(bytes) - 1))
                    THEN "success" ELSE "failure",
                verdict |-> IF listening THEN decodeOTA(bytes).status
                            ELSE "none",
                mailbox |-> IF Delivers(bytes)
                            THEN << DeliveredAck(bytes) >> ELSE << >>,
                resolved |-> IF Delivers(bytes)
                             THEN << ResolverValue(pendingAckResolve[1],
                                                   DeliveredAck(bytes)) >>
                             ELSE << >>,
                sink |-> ForwardedToSink(bytes)]

\* the setTimeout callback of waitForAck: whatever resolver is in the slot is
\* dropped and this callback's own promise is resolved with "timeout"
AckTimeout(t) ==
    /\ t \in TimersOf("ack")
    /\ LET tm == timers (-) One(t) IN
       IF pendingAckResolve # NoResolver
       THEN /\ pendingAckResolve' = NoResolver
            /\ IF t.n = 1 /\ pc \in WaitPcs
               THEN /\ ack' = (IF pc = "fin_wait" THEN TimeoutValue ELSE ack)
                    /\ answered' = FALSE
                    /\ Resume(TimeoutValue, tm)
               ELSE /\ timers' = tm
                    /\ UNCHANGED << ack, answered, loopVars, hist >>
       ELSE /\ timers' = tm
            /\ UNCHANGED << pendingAckResolve, ack, answered, loopVars, hist >>
    /\ UNCHANGED << prepVars, cmdVars, envVars, otaActivationResolve >>
    /\ note' = NoNote

\* the 5000 ms callback of sendOTAActivate
ActivationTimeout(t) ==
    /\ t \in TimersOf("activation")
    /\ LET tm == timers (-) One(t) IN
       IF otaActivationResolve
       THEN /\ otaActivationResolve' = FALSE
            /\ IF t.n = 1 /\ pc = "activating"
               THEN ResumeActivation(FALSE, FALSE, tm)
               ELSE /\ timers' = tm
                    /\ UNCHANGED << loopVars, hist >>
       ELSE /\ timers' = tm
            /\ UNCHANGED << otaActivationResolve, loopVars, hist >>
    /\ UNCHANGED << prepVars, cmdVars, envVars, pendingAckResolve, ack, answered >>
    /\ note' = NoNote

\* the write of sendCommand is accepted: the 3000 ms retry timer is set
CmdWriteAccepted(w) ==
    /\ w \in BagToSet(pendingWrites)
    /\ connected
    /\ pendingWrites' = pendingWrites (-) One(w)
    /\ timers' = timers (+) One(Timer("cmd", w.n, w.at))
    /\ UNCHANGED << prepVars, envVars, loopVars, currentCommand, lastCommandTime,
                    pendingAckResolve, otaActivationResolve, ack, hist, answered >>
    /\ note' = NoNote

\* the write of sendCommand is rejected: retry after 1000 ms while retryCount < 2
CmdWriteRejected(w) ==
    /\ w \in BagToSet(pendingWrites)
    /\ pendingWrites' = pendingWrites (-) One(w)
    /\ timers' = IF MayRetry(w.n)
                 THEN timers (+) One(Timer("cmdErr", w.n, w.at))
                 ELSE timers
    /\ UNCHANGED << prepVars, envVars, loopVars, currentCommand, lastCommandTime,
                    pendingAckResolve, otaActivationResolve, ack,
                    hist, answered >>
    /\ note' = NoNote

\* the 3000 ms callback of sendCommand.  Date.now() - lastCommandTime > 2900
\* holds when no later send has moved lastCommandTime; otherwise it may or
\* may not hold (elapsed).
CmdRetryTimer(t, elapsed) ==
    /\ t \in TimersOf("cmd")
    /\ timers' = timers (-) One(t)
    /\ IF currentCommand = ACTIVATION_NAME /\ (lastCommandTime = t.at \/ elapsed)
       THEN IF MayRetry(t.n)
            THEN LET sc == sendCommand(t.n + 1, currentCommand, lastCommandTime,
                                       hist, pendingWrites) IN
                 /\ currentCommand' = sc.cur
                 /\ lastCommandTime' = sc.last
                 /\ hist' = sc.tr
                 /\ pendingWrites' = sc.pw
            ELSE /\ currentCommand' = NULL
                 /\ UNCHANGED << lastCommandTime, hist, pendingWrites >>
       ELSE UNCHANGED << currentCommand, lastCommandTime, hist, pendingWrites >>
    /\ UNCHANGED << prepVars, envVars, loopVars, pendingAckResolve,
                    otaActivationResolve, ack, answered >>
    /\ note' = NoNote

\* the 1000 ms callback set by the catch block of sendCommand
CmdErrorRetryTimer(t) ==
    /\ t \in TimersOf("cmdErr")
    /\ timers' = timers (-) One(t)
    /\ LET sc == sendCommand(t.n + 1, currentCommand, lastCommandTime,
                             hist, pendingWrites) IN
         /\ currentCommand' = sc.cur
         /\ lastCommandTime' = sc.last
         /\ hist' = sc.tr
         /\ pendingWrites' = sc.pw
    /\ UNCHANGED << prepVars, envVars, loopVars, pendingAckResolve,
                    otaActivationResolve, ack, answered >>
    /\ note' = NoNote

\* gattserverdisconnected: writes fail and no notification arrives any more
Disconnect ==
    /\ connected
    /\ connected' = FALSE
    /\ UNCHANGED << prepVars, cmdVars, loopVars, writeChars, firmwareData, codec,
                    pendingAckResolve, otaActivationResolve, ack, timers, hist,
                    answered >>
    /\ note' = NoNote

\* ------------------------------------------------------------------------
\* Specifications
\* ------------------------------------------------------------------------
TimerStep ==
    \/ \E t \in BagToSet(timers) : AckTimeout(t)
    \/ \E t \in BagToSet(timers) : ActivationTimeout(t)
    \/ \E t \in BagToSet(timers) : BackoffTimer(t)
    \/ \E t \in BagToSet(timers) : \E e \in BOOLEAN : CmdRetryTimer(t, e)
    \/ \E t \in BagToSet(timers) : CmdErrorRetryTimer(t)

WriteSettles ==
    \/ SizeWriteAccepted
    \/ SizeWriteRejected
    \/ ChunkWriteAccepted
    \/ ChunkWriteRejected
    \/ FinalizeWriteAccepted
    \/ FinalizeWriteRejected
    \/ \E w \in BagToSet(pendingWrites) : CmdWriteAccepted(w)
    \/ \E w \in BagToSet(pendingWrites) : CmdWriteRejected(w)

Next ==
    \/ \E fw \in Firmwares : handleFirmwareFile(fw)
    \/ performOTAUpdate
    \/ connectAndPrepareOTA
    \/ \E txSet \in BOOLEAN : PrepareFailed(txSet)
    \/ \E bytes \in Notifications : Notify(bytes)
    \/ TimerStep
    \/ WriteSettles
    \/ Disconnect

Spec == Init /\ [][Next]_vars

\* the transport accepts every write, the device answers every step
\* correctly, once, and before that step's own timer runs
ExpectedAnswer(bytes) ==
    \/ pc = "activating" /\ otaActivationResolve
       /\ bytes = StdReply(CMD_ACTIVATE, << 1 >>)
    \/ pc = "size_wait" /\ ~answered
       /\ bytes = DeviceAck(CMD_SIZE, OTA_RESERVED, << >>)
    \/ pc = "chunk_wait" /\ ~answered
       /\ bytes = DeviceAck(CMD_CHUNK, OTA_RESERVED, << >>)
    \/ pc = "fin_wait" /\ ~answered
       /\ bytes = DeviceAck(CMD_FINALIZE, OTA_RESERVED, << 1 >>)

HappyNotify == \E bytes \in Notifications : ExpectedAnswer(bytes) /\ Notify(bytes)

HappyTimerStep ==
    \/ \E t \in BagToSet(timers) : (t.n = 0 \/ answered) /\ AckTimeout(t)
    \/ \E t \in BagToSet(timers) : ~otaActivationResolve /\ ActivationTimeout(t)
    \/ \E t \in BagToSet(timers) : CmdRetryTimer(t, TRUE)

HappyWrites ==
    \/ SizeWriteAccepted
    \/ ChunkWriteAccepted
    \/ FinalizeWriteAccepted
    \/ \E w \in BagToSet(pendingWrites) : CmdWriteAccepted(w)

HappyNext ==
    \/ \E fw \in Firmwares : handleFirmwareFile(fw)
    \/ performOTAUpdate
    \/ connectAndPrepareOTA
    \/ HappyNotify
    \/ HappyTimerStep
    \/ HappyWrites

\* every task that is ready is eventually run
HappyInit == Init /\ writeChars = 1

HappySpec == HappyInit /\ [][HappyNext]_vars /\ WF_vars(HappyNext)

\* The session with a one-byte image, a connection that stays up and a
\* transport that accepts every write; the device may send anything at any
\* time, and every notification step is written down in note.
TracedFirmware == MakeFirmware(1)

TracedTimerStep ==
    \/ \E t \in BagToSet(timers) : AckTimeout(t)
    \/ \E t \in BagToSet(timers) : ActivationTimeout(t)
    \/ \E t \in BagToSet(timers) : BackoffTimer(t)
    \/ \E t \in BagToSet(timers) : \E e \in BOOLEAN : CmdRetryTimer(t, e)

TracedNext ==
    \/ handleFirmwareFile(TracedFirmware)
    \/ performOTAUpdate
    \/ connectAndPrepareOTA
    \/ \E bytes \in TracedNotifications : Route(bytes)
    \/ TracedTimerStep
    \/ HappyWrites

TracedInit == Init /\ writeChars = 1

TracedSpec == TracedInit /\ [][TracedNext]_vars

\* The same, where the write of sendCommand may also be rejected and
\* performOTAUpdate may be called at any moment of the session.
RoutedNext ==
    \/ handleFirmwareFile(TracedFirmware)
    \/ Call
    \/ connectAndPrepareOTA
    \/ \E bytes \in RoutedNotifications : Route(bytes)
    \/ TracedTimerStep
    \/ HappyWrites
    \/ \E w \in BagToSet(pendingWrites) : CmdWriteRejected(w)
    \/ \E t \in BagToSet(timers) : CmdErrorRetryTimer(t)

RoutedSpec == TracedInit /\ [][RoutedNext]_vars

\* The session with an image of two chunks and a device whose acks echo the
\* right values, other values, or nothing.
EchoFirmware == MakeFirmware(MaxFirmwareSize)

EchoNotifications ==
    { StdReply(CMD_ACTIVATE, << 1 >>),
      DeviceAck(CMD_SIZE, OTA_RESERVED,
                LE32(Len(EchoFirmware)) \o LE32W(FirmwareChecksums[EchoFirmware])),
      DeviceAck(CMD_SIZE, OTA_RESERVED,
                LE32(Len(EchoFirmware)) \o << 0, 0, 0, 0 >>),
      DeviceAck(CMD_CHUNK, OTA_RESERVED, LE32(0)),
      DeviceAck(CMD_CHUNK, OTA_RESERVED, LE32(4660)),
      DeviceAck(CMD_CHUNK, OTA_RESERVED, << >>) }

EchoNext ==
    \/ handleFirmwareFile(EchoFirmware)
    \/ performOTAUpdate
    \/ connectAndPrepareOTA
    \/ \E bytes \in EchoNotifications : Route(bytes)
    \/ TracedTimerStep
    \/ HappyWrites

EchoSpec == TracedInit /\ [][EchoNext]_vars

\* ------------------------------------------------------------------------
\* A second session: performOTAUpdate is called again after a session ended
\* ------------------------------------------------------------------------
\* a timer as it stands once its session is over: the promise of a
\* waitForAck or sendOTAActivate of that session is settled
LeftOver(t) ==
    IF t.kind \in {"ack", "activation"} THEN [t EXCEPT !.n = 0] ELSE t

\* the pending timers, those of the ended session marked as left over
LeftOverTimers(tm) ==
    [s \in {LeftOver(t) : t \in BagToSet(tm)} |->
        CopiesIn(s, tm)
        + (IF s.kind \in {"ack", "activation"}
           THEN CopiesIn([s EXCEPT !.n = 1], tm) ELSE 0)]

\* performOTAUpdate called after the previous call has returned: the guards
\* pass (firmwareData is set, otaInProgress is false again) and a new
\* session starts; the timers of the previous one are still pending
Restart ==
    /\ pc \in {"completed", "failed"}
    /\ lastCommandTime < MaxCommandTime
    /\ firmwareData # NoFirmware
    /\ ~AlreadyInProgress
    /\ otaInProgress' = TRUE
    /\ pc' = "preparing"
    /\ timers' = LeftOverTimers(timers)
    /\ hist' = NoHistory
    /\ failReason' = NoFailure
    /\ answered' = FALSE
    /\ UNCHANGED << prepVars, cmdVars, envVars, pendingAckResolve,
                    otaActivationResolve, offset, chunkIndex, retryCount, ack >>
    /\ note' = NoNote

\* the replies and acks of a device that answers each step, or refuses the
\* activation
RestartNotifications ==
    { StdReply(CMD_ACTIVATE, << 1 >>), StdReply(CMD_ACTIVATE, << 0 >>),
      DeviceAck(CMD_SIZE, OTA_RESERVED, << >>),
      DeviceAck(CMD_CHUNK, OTA_RESERVED, << >>),
      DeviceAck(CMD_FINALIZE, OTA_RESERVED, << 1 >>) }

RestartNext ==
    \/ handleFirmwareFile(TracedFirmware)
    \/ performOTAUpdate
    \/ Restart
    \/ connectAndPrepareOTA
    \/ \E bytes \in RestartNotifications : Notify(bytes)
    \/ TracedTimerStep
    \/ HappyWrites

RestartSpec == TracedInit /\ [][RestartNext]_vars

\* timers eventually fire and writes eventually settle; nothing is assumed
\* about the device
FairSpec == Spec /\ WF_vars(TimerStep) /\ WF_vars(WriteSettles)
            /\ WF_vars(connectAndPrepareOTA \/ \E txSet \in BOOLEAN : PrepareFailed(txSet))

\* ------------------------------------------------------------------------
\* The codec functions on their own: encode an input, decode the frame
\* ------------------------------------------------------------------------
LongPayload == [i \in 1..250 |-> (i * 3) % 256]

RECURSIVE SeqsUpTo(_, _)
SeqsUpTo(S, n) ==
    IF n = 0 THEN {<< >>}
    ELSE LET shorter == SeqsUpTo(S, n - 1)
         IN  shorter \cup {Append(q, x) : q \in shorter, x \in S}

CodecPayloads == SeqsUpTo({0, 1, 255}, MaxPayloadLen) \cup {LongPayload}
CodecCmds == {CMD_SIZE, CMD_CHUNK, CMD_FINALIZE, 0, 255}
CodecReserved == {OTA_RESERVED, 0}

CodecInit ==
    /\ SessionInit
    /\ writeChars = 1
    /\ \E c \in CodecCmds, r \in CodecReserved, p \in CodecPayloads :
           codec = [CodecIdle EXCEPT !.phase = "input", !.cmd = c,
                                     !.reserved = r, !.payload = p]

\* ------------------------------------------------------------------------
\* The three encoders on their own
\* ------------------------------------------------------------------------
EncoderPayloads ==
    CodecPayloads \cup {[i \in 1..251 |-> (i * 5) % 256],
                        [i \in 1..255 |-> (i * 7) % 256]}

EncoderNames == {"createCommandMessage", "createMeterIPMessage",
                 "createBLEOTAFrame"}

sessionVars == << otaInProgress, otaTotalChunks, txCharacteristic, otaChunkSize,
                  pendingAckResolve, firmwareChecksum, firmwareData,
                  otaActivationResolve, currentCommand, lastCommandTime,
                  pc, offset, chunkIndex, retryCount, failReason, ack,
                  timers, pendingWrites, listening, connected, writeChars,
                  hist, answered, note >>

Encode ==
    /\ codec.phase = "input"
    /\ codec' = [codec EXCEPT !.phase = "encoded",
                    !.frame = createBLEOTAFrame(codec.cmd, codec.reserved,
                                                codec.payload)]
    /\ UNCHANGED sessionVars

Decode ==
    /\ codec.phase = "encoded"
    /\ codec' = [codec EXCEPT !.phase = "decoded",
                              !.decoded = decodeOTA(codec.frame)]
    /\ UNCHANGED sessionVars

CodecNext == Encode \/ Decode

\* ------------------------------------------------------------------------
\* An encoded OTA frame damaged on the way: one bit flipped, the last byte
\* lost, or one byte added
\* ------------------------------------------------------------------------
\* byte b with bit k (0..7) inverted
FlipBit(b, k) ==
    LET w == 2 ^ k
    IN  IF (b \div w) % 2 = 1 THEN b - w ELSE b + w

FlipBitOf(frame, i, k) == [frame EXCEPT ![i] = FlipBit(frame[i], k)]

Flip ==
    /\ codec.phase = "encoded"
    /\ \E i \in 1..Len(codec.frame), k \in 0..7 :
           codec' = [codec EXCEPT !.phase = "flipped",
                                  !.frame = FlipBitOf(codec.frame, i, k)]
    /\ UNCHANGED sessionVars

Truncate ==
    /\ codec.phase = "encoded"
    /\ codec' = [codec EXCEPT !.phase = "truncated",
                    !.frame = SubSeq(codec.frame, 1, Len(codec.frame) - 1)]
    /\ UNCHANGED sessionVars

Pad ==
    /\ codec.phase = "encoded"
    /\ \E b \in {0, 255} :
           codec' = [codec EXCEPT !.phase = "padded",
                                  !.frame = Append(codec.frame, b)]
    /\ UNCHANGED sessionVars

\* handleNotification parses the damaged frame
DecodeDamaged ==
    /\ codec.phase \in {"flipped", "truncated", "padded"}
    /\ codec' = [codec EXCEPT !.damage = codec.phase,
                              !.phase = "decoded",
                              !.decoded = decodeOTA(codec.frame)]
    /\ UNCHANGED sessionVars

DamageInit ==
    /\ SessionInit
    /\ writeChars = 1
    /\ \E c \in {CMD_SIZE, CMD_CHUNK}, p \in SeqsUpTo({0, 255}, MaxPayloadLen) :
           codec = [phase |-> "input", damage |-> "none", cmd |-> c,
                    reserved |-> OTA_RESERVED, payload |-> p, frame |-> << >>,
                    decoded |-> decodeOTA(<< >>)]

DamageNext == Encode \/ Flip \/ Truncate \/ Pad \/ DecodeDamaged

DamageSpec == DamageInit /\ [][DamageNext]_vars

\* ------------------------------------------------------------------------
\* analyzeFirmware on whole buffers
\* ------------------------------------------------------------------------
\* A firmware buffer of `length` bytes is given by the bytes `run` it holds
\* from offset `base` on; every byte outside the run is 0x00.
Buffer(length, base, run) == [length |-> length, base |-> base, run |-> run]

\* bytes[i]
BufByte(buf, i) ==
    IF i >= buf.base /\ i < buf.base + Len(buf.run)
    THEN buf.run[i - buf.base + 1] ELSE 0

\* bytes.slice(from, to)
BufSlice(buf, from, to) ==
    [k \in 1..(Min(to, buf.length) - from) |-> BufByte(buf, from + k - 1)]

signatureOffset == 327684

\* the character codes of 'VenusC'
VenusC == << 86, 101, 110, 117, 115, 67 >>

\* new TextDecoder('utf-8', {fatal: false}).decode(bytes).includes(text) for
\* an ASCII text: an ASCII byte decodes to its own character, a byte that is
\* not valid UTF-8 decodes to U+FFFD and never swallows an ASCII byte, so the
\* string includes the text exactly when the bytes hold its codes in a row
DecodedIncludes(bytes, text) ==
    \E i \in 0..(Len(bytes) - Len(text)) :
        SubSeq(bytes, i + 1, i + Len(text)) = text

\* signatureBytes.some(b => b !== 0x00 && b !== 0xFF)
hasData(signatureBytes) ==
    \E k \in 1..Len(signatureBytes) : signatureBytes[k] \notin {0, 255}

\* the signature area is looked at from a buffer of this length up
SignatureChecked_AtLeast(length) == length >= signatureOffset + 10

\* bytes.length > signatureOffset + 10
SignatureChecked(length) == length > signatureOffset + 10

TYPE_EMS == "EMS/Control Firmware (VenusC signature found)"
TYPE_BMS_NO_SIGNATURE == "BMS Firmware (no VenusC signature)"
TYPE_UNKNOWN_EMPTY_AREA == "Unknown (signature area empty)"
TYPE_BMS_BY_SIZE == "BMS Firmware (size suggests BMS)"
TYPE_UNKNOWN_SMALL == "Unknown (small size - proceed with caution)"
TYPE_UNKNOWN_VERY_SMALL == "Unknown (very small - likely not firmware)"
WARN_NONE == ""
WARN_SMALL == "File size is unusually small for firmware"
WARN_VERY_SMALL == "File size is very small - this may not be valid firmware"

FirmwareTypes == {TYPE_EMS, TYPE_BMS_NO_SIGNATURE, TYPE_UNKNOWN_EMPTY_AREA,
                  TYPE_BMS_BY_SIZE, TYPE_UNKNOWN_SMALL, TYPE_UNKNOWN_VERY_SMALL}

\* the bytes outside the run are 0x00 and add nothing to the sum
analyzeFirmware(buf) ==
    LET checksum == analyzeFirmwareChecksum(buf.run)
        signatureBytes == BufSlice(buf, signatureOffset, signatureOffset + 10)
        class ==
            IF SignatureChecked(buf.length)
            THEN IF DecodedIncludes(signatureBytes, VenusC)
                 THEN << TYPE_EMS, WARN_NONE >>
                 ELSE IF hasData(signatureBytes)
                      THEN << TYPE_BMS_NO_SIGNATURE, WARN_NONE >>
                      ELSE << TYPE_UNKNOWN_EMPTY_AREA, WARN_NONE >>
            ELSE IF buf.length >= 32768
                 THEN << TYPE_BMS_BY_SIZE, WARN_NONE >>
                 ELSE IF buf.length >= 1024
                      THEN << TYPE_UNKNOWN_SMALL, WARN_SMALL >>
                      ELSE << TYPE_UNKNOWN_VERY_SMALL, WARN_VERY_SMALL >>
    IN  [checksum |-> checksum, type |-> class[1], size |-> buf.length,
         warning |-> class[2]]

\* buffer lengths on both sides of every threshold of the analyzer
AnalyzerLengths == {0, 3, 300, 1023, 1024, 32767, 32768,
                    signatureOffset + 9, signatureOffset + 10,
                    signatureOffset + 11, signatureOffset + 12}

\* contents from offset 0 on
AnalyzerHeads == {<< >>, << 1, 2, 3 >>, << 255 >>, << 0, 0, 255, 7 >>,
                  [k \in 1..300 |-> 255]}

\* contents of ten bytes for the signature area
AnalyzerWindows ==
    {VenusC \o << 48, 48, 48, 48 >>,
     << 48, 48, 48, 48 >> \o VenusC,
     << 0, 0 >> \o VenusC \o << 255, 255 >>,
     << 86, 101, 110, 117, 115, 88, 0, 0, 0, 0 >>,
     << 86, 101, 110, 117, 115, 0, 67, 0, 0, 0 >>,
     << 0, 0, 0, 0, 0, 0, 0, 0, 0, 1 >>,
     << 0, 255, 0, 255, 0, 255, 0, 255, 0, 255 >>,
     [k \in 1..10 |-> 255]}

AnalyzerBuffers ==
    {Buffer(n, 0, h) : n \in AnalyzerLengths, h \in AnalyzerHeads}
    \cup {Buffer(n, signatureOffset, w) :
              n \in AnalyzerLengths, w \in AnalyzerWindows}
    \cup {Buffer(n, b, VenusC) :
              n \in AnalyzerLengths,
              b \in {signatureOffset - 1, signatureOffset + 5}}

NoAnalysis == [checksum |-> Word32(0, 0), type |-> "", size |-> 0,
               warning |-> ""]

AnalyzerInit ==
    /\ SessionInit
    /\ writeChars = 1
    /\ \E buf \in AnalyzerBuffers :
           /\ buf.base + Len(buf.run) <= buf.length
           /\ codec = [phase |-> "input", buf |-> buf, analysis |-> NoAnalysis,
                       frame |-> << >>]

Analyze ==
    /\ codec.phase = "input"
    /\ codec' = [codec EXCEPT !.phase = "analyzed",
                              !.analysis = analyzeFirmware(codec.buf)]
    /\ UNCHANGED sessionVars

\* sendFirmwareSize builds the size frame from the analysis
BuildSizeFrame ==
    /\ codec.phase = "analyzed"
    /\ codec' = [codec EXCEPT !.phase = "framed",
                     !.frame = SizeFrame(codec.analysis.size,
                                         codec.analysis.checksum)]
    /\ UNCHANGED sessionVars

AnalyzerNext == Analyze \/ BuildSizeFrame

AnalyzerSpec == AnalyzerInit /\ [][AnalyzerNext]_vars

\* ------------------------------------------------------------------------
\* sendFirmwareSize comparing the checksum echoed in the size ack
\* ------------------------------------------------------------------------
\* p[i] | (p[i+1] << 8) | (p[i+2] << 16) | (p[i+3] << 24): the bitwise
\* operators give a signed 32-bit integer, negative when bit 7 of p[i+3] is set
ReadInt32LE(payload, i) ==
    LET lo == At(payload, i) + 256 * At(payload, i + 1)
        hi == At(payload, i + 2) + 256 * At(payload, i + 3)
    IN  (IF hi >= 32768 THEN hi - 65536 ELSE hi) * 65536 + lo

\* n === w for the number n and the unsigned 32-bit value w
StrictEquals32(n, w) ==
    /\ n >= 0
    /\ n \div 65536 = w.hi
    /\ n % 65536 = w.lo

\* what sendFirmwareSize logs about the echo after an ack with ok = true
SizeEchoLog(payload, checksum) ==
    IF Len(payload) >= 8
    THEN IF StrictEquals32(ReadInt32LE(payload, 4), checksum)
         THEN "verified" ELSE "mismatch"
    ELSE "none"

\* checksums on both sides of 2^31: 0xFFFFFFF9 is the checksum of the bytes
\* 01 02 03, 0xFFFED52B that of 300 bytes of 0xFF
EchoChecksums ==
    {Word32(0, 0), Word32(0, 1), Word32(4660, 22136), Word32(32767, 65535),
     Word32(32768, 0), Word32(43981, 61185), Word32(65534, 54571),
     Word32(65535, 65529), Word32(65535, 65535)}

\* the payloads a device may put in the size ack for a size payload sent:
\* the payload itself, the payload with one bit of a checksum byte changed,
\* its first four bytes, nothing
SizeAckPayloads(sent) ==
    {sent, SubSeq(sent, 1, 4), << >>}
    \cup {FlipBitOf(sent, i, k) : i \in 5..8, k \in {0, 7}}

SizeEchoInit ==
    /\ SessionInit
    /\ writeChars = 1
    /\ \E w \in EchoChecksums :
           codec = [phase |-> "input", checksum |-> w, frame |-> << >>,
                    payload |-> << >>, log |-> "none"]

\* sendFirmwareSize writes the size frame
WriteSizeFrame ==
    /\ codec.phase = "input"
    /\ codec' = [codec EXCEPT !.phase = "sent",
                              !.frame = SizeFrame(300, codec.checksum)]
    /\ UNCHANGED sessionVars

\* the wait resolves with a verified ack of cmd 0x50
SizeAckResolves ==
    /\ codec.phase = "sent"
    /\ \E p \in SizeAckPayloads(SubSeq(codec.frame, 6, 13)) :
           codec' = [codec EXCEPT !.phase = "acked", !.payload = p]
    /\ UNCHANGED sessionVars

CompareEcho ==
    /\ codec.phase = "acked"
    /\ codec' = [codec EXCEPT !.phase = "compared",
                     !.log = SizeEchoLog(codec.payload, codec.checksum)]
    /\ UNCHANGED sessionVars

SizeEchoNext == WriteSizeFrame \/ SizeAckResolves \/ CompareEcho

SizeEchoSpec == SizeEchoInit /\ [][SizeEchoNext]_vars

EncoderInit ==
    /\ SessionInit
    /\ writeChars = 1
    /\ \E f \in EncoderNames, c \in CodecCmds, p \in EncoderPayloads :
           codec = [phase |-> "input", fn |-> f, cmd |-> c,
                    reserved |-> OTA_RESERVED, payload |-> p, frame |-> << >>]

EncodeCommand ==
    /\ codec.phase = "input"
    /\ codec.fn = "createCommandMessage"
    /\ codec' = [codec EXCEPT !.phase = "encoded",
                    !.frame = createCommandMessage(codec.cmd, codec.payload)]
    /\ UNCHANGED sessionVars

EncodeMeterIP ==
    /\ codec.phase = "input"
    /\ codec.fn = "createMeterIPMessage"
    /\ codec' = [codec EXCEPT !.phase = "encoded",
                    !.frame = createMeterIPMessage(codec.cmd, codec.payload)]
    /\ UNCHANGED sessionVars

EncodeOTA ==
    /\ codec.phase = "input"
    /\ codec.fn = "createBLEOTAFrame"
    /\ codec' = [codec EXCEPT !.phase = "encoded",
                    !.frame = createBLEOTAFrame(codec.cmd, codec.reserved,
                                                codec.payload)]
    /\ UNCHANGED sessionVars

EncoderNext == EncodeCommand \/ EncodeMeterIP \/ EncodeOTA

EncoderSpec == EncoderInit /\ [][EncoderNext]_vars

CodecSpec == CodecInit /\ [][CodecNext]_vars

\* ------------------------------------------------------------------------
\* Properties
\* ------------------------------------------------------------------------
Terminal == pc \in {"completed", "failed"}

ChunkOffsets == DOMAIN hist.chunks

\* attempts of the chunk at offset o that were written and have not ended yet
Outstanding(o) ==
    LET c == hist.chunks[o]
    IN  c.writes - c.failures - (IF c.acked THEN 1 ELSE 0)

RECURSIVE SumOver(_, _)
SumOver(f(_), S) ==
    IF S = {} THEN 0
    ELSE LET x == CHOOSE y \in S : TRUE
         IN  f(x) + SumOver(f, S \ {x})

StageRank(st) == CASE st = "activation" -> 1
                   [] st = "size" -> 2
                   [] st = "chunk" -> 3
                   [] st = "finalize" -> 4

LastStage == FrameStage(hist.last)

FinalizeAckGood ==
    /\ ack.ok
    /\ ack.cmd = CMD_FINALIZE
    /\ Len(ack.payload) >= 1
    /\ ack.payload[1] = 1

\* C1: in a session where every write is accepted and every step is answered
\* correctly before its own timeout, a started session eventually reaches
\* Completed, whatever the order in which the timers set on the way expire.
C1_HappyPathCompletes == (pc = "preparing") ~> (pc = "completed")

\* C2: every wait started by waitForAck eventually resolves (to the ack, an
\* 'unexpected cmd' failure or a 'timeout' failure): the step that awaits it
\* does not stay suspended in the wait forever.
C2_EveryWaitResolves == (pc \in WaitPcs) ~> (pc \notin WaitPcs)

\* C3: every started session eventually ends in Completed or Failed, and
\* otaInProgress is then false.
C3_SessionTerminates == (pc = "preparing") ~> (Terminal /\ ~otaInProgress)

\* C4: chunk ordering.  The offsets written for the first time are, in that
\* order, 0, 128, 256, ..; a chunk frame with an offset above 0 is written
\* only when the ack of the chunk before it has been accepted; and at most one
\* chunk attempt is awaiting its ack.
C4_ChunkOrdering ==
    /\ \A i \in 1..Len(hist.firsts) :
           hist.firsts[i] = PROTOCOL_CHUNK_SIZE * (i - 1)
    /\ \A o \in ChunkOffsets :
           o > 0 => /\ (o - PROTOCOL_CHUNK_SIZE) \in ChunkOffsets
                    /\ hist.chunks[o - PROTOCOL_CHUNK_SIZE].acked
    /\ \A o \in ChunkOffsets : Outstanding(o) \in {0, 1}
    /\ SumOver(Outstanding, ChunkOffsets) <= 1

\* the second chunk has been written while the session runs
C4_Witness ==
    /\ Len(hist.firsts) = 2
    /\ pc = "chunk_wait"
    /\ hist.chunks[0].acked

\* C5: chunk retry bound.  A chunk is written at most 3 times; a chunk frame
\* beyond the first one for an offset is written only after an attempt for
\* that offset failed; it is byte for byte the first frame written for the
\* offset; and once the third attempt is acknowledged the next chunk frame or
\* the finalize frame is written.
C5_ChunkRetryBound ==
    \A o \in ChunkOffsets :
        LET c == hist.chunks[o] IN
        /\ c.writes <= MAX_CHUNK_RETRIES
        /\ c.writes <= c.failures + 1
        /\ (LastStage = "chunk" /\ FrameOffset(hist.last) = o)
              => /\ hist.last = c.first
                 /\ FrameData(hist.last) = ChunkAt(Firmware, o, PROTOCOL_CHUNK_SIZE)
        /\ (c.acked /\ c.writes = MAX_CHUNK_RETRIES)
              => \/ (o + PROTOCOL_CHUNK_SIZE) \in ChunkOffsets
                 \/ hist.writes["finalize"] >= 1

\* the third attempt of the first chunk was acknowledged and the second chunk
\* has been written
C5_Witness ==
    /\ 0 \in ChunkOffsets
    /\ hist.chunks[0].writes = 3
    /\ hist.chunks[0].failures = 2
    /\ hist.chunks[0].acked
    /\ PROTOCOL_CHUNK_SIZE \in ChunkOffsets

\* C6: chunk retry exhaustion.  Once 3 attempts for the chunk at offset o have
\* failed, the session is Failed with the reason naming chunk o / 128 + 1, and
\* no chunk frame for a later offset and no finalize frame has been written.
C6_RetryExhaustion ==
    \A o \in ChunkOffsets :
        hist.chunks[o].failures >= MAX_CHUNK_RETRIES
        => /\ pc = "failed"
           /\ ~otaInProgress
           /\ failReason.msg = "Failed to send chunk after 3 retries"
           /\ failReason.chunk = (o \div PROTOCOL_CHUNK_SIZE) + 1
           /\ \A o2 \in ChunkOffsets : o2 <= o
           /\ hist.writes["finalize"] = 0

\* all three attempts of the second chunk failed
C6_Witness ==
    /\ PROTOCOL_CHUNK_SIZE \in ChunkOffsets
    /\ hist.chunks[PROTOCOL_CHUNK_SIZE].failures = 3
    /\ pc = "failed"

\* C7: stage order.  The frame written most recently belongs to the latest
\* stage that has begun; a size frame is written only after the activation
\* succeeded, a chunk frame only after the size ack was accepted, the finalize
\* frame only after every chunk of the firmware was acknowledged.
C7_StageOrder ==
    /\ \A st \in Stages :
           hist.writes[st] > 0 => StageRank(st) <= StageRank(LastStage)
    /\ hist.writes["size"] > 0 => hist.outcome["activation"] = "ok"
    /\ hist.writes["chunk"] > 0 => hist.outcome["size"] = "ok"
    /\ hist.writes["finalize"] > 0
          => /\ hist.outcome["size"] = "ok"
             /\ \A k \in 0..(TotalChunks(Len(Firmware), PROTOCOL_CHUNK_SIZE) - 1) :
                    /\ (k * PROTOCOL_CHUNK_SIZE) \in ChunkOffsets
                    /\ hist.chunks[k * PROTOCOL_CHUNK_SIZE].acked

\* C8: the session is Completed only when the finalize wait resolved to a
\* verified ack with cmd 0x52 and first payload byte 0x01; when the finalize
\* step ended in any other way the session is Failed.
C8_CompletedOnlyOnFinalizeAck ==
    /\ pc = "completed" => FinalizeAckGood /\ hist.outcome["finalize"] = "ok"
    /\ (hist.outcome["finalize"] # "none" /\ ~FinalizeAckGood)
          => /\ pc = "failed"
             /\ failReason.msg = "Failed to finalize OTA update"

\* the session completed
C8_Witness == pc = "completed" /\ hist.writes["finalize"] = 1

\* C9: a failure before chunk transfer.  A Preparing failure leaves no frame
\* written; a failed activation leaves the session Failed with no size, chunk
\* or finalize frame written; a failed size step leaves it Failed with the
\* size frame written once and no chunk or finalize frame written.
C9_EarlyFailureWritesNoLaterStage ==
    /\ failReason.msg = "connectAndPrepareOTA failed"
          => /\ pc = "failed"
             /\ \A st \in Stages : hist.writes[st] = 0
    /\ hist.outcome["activation"] = "failed"
          => /\ pc = "failed"
             /\ failReason.msg = "Failed to activate upgrade mode"
             /\ \A st \in Stages \ {"activation"} : hist.writes[st] = 0
    /\ hist.outcome["size"] = "failed"
          => /\ pc = "failed"
             /\ failReason.msg = "Failed to send firmware size"
             /\ hist.writes["size"] <= 1
             /\ hist.writes["chunk"] = 0
             /\ hist.writes["finalize"] = 0

\* the size frame was written and its wait failed
C9_Witness ==
    /\ hist.outcome["size"] = "failed"
    /\ hist.writes["size"] = 1
    /\ pc = "failed"

\* C10: OTA frame round trip.  The frame built by createBLEOTAFrame is
\* accepted by the decoder of handleNotification and decodes to the cmd,
\* reserved byte and payload it was built from.
C10_OTARoundTrip ==
    codec.phase = "decoded"
    => /\ codec.decoded.status = "Ack"
       /\ codec.decoded.cmd = codec.cmd
       /\ codec.decoded.reserved = codec.reserved
       /\ codec.decoded.payload = codec.payload

\* the notification routed by the step just taken, and the three conditions
\* of an OTA frame stated on its bytes
Routed == note.kind = "notification"

HeaderOK(b) == Len(b) >= 6 /\ b[1] = START_BYTE

LengthOK(b) == b[2] + 256 * b[3] = Len(b)

ChecksumOK(b) == b[Len(b)] = calculateXORChecksum(SubSeq(b, 1, Len(b) - 1))

\* C11: an ack is handed to the Mailbox only from a notification that starts
\* with 0x73, has at least 6 bytes, declares its own length in bytes 1-2 and
\* ends with the XOR of the bytes before; the ack carries byte 3 as cmd, byte
\* 4 as reserved and bytes 5 .. last-1 as payload.  The checks run in that
\* order: the rejection names the first check that fails.
C11_AckOnlyFromVerifiedFrame ==
    Routed =>
        LET b == note.bytes IN
        /\ note.mailbox # << >>
              => /\ HeaderOK(b) /\ LengthOK(b) /\ ChecksumOK(b)
                 /\ note.mailbox[1].ok
                 /\ note.mailbox[1].cmd = b[4]
                 /\ note.mailbox[1].reserved = b[5]
                 /\ note.mailbox[1].payload = SubSeq(b, 6, Len(b) - 1)
        /\ note.verdict = "BadHeader" <=> (note.verdict # "none" /\ ~HeaderOK(b))
        /\ note.verdict = "LengthMismatch"
              <=> (note.verdict # "none" /\ HeaderOK(b) /\ ~LengthOK(b))
        /\ note.verdict = "BadChecksum"
              <=> (note.verdict # "none" /\ HeaderOK(b) /\ LengthOK(b)
                   /\ ~ChecksumOK(b))

\* a finalize ack with a one-byte payload was handed to the pending wait
C11_Witness ==
    /\ Routed
    /\ note.mailbox # << >>
    /\ note.mailbox[1].cmd = CMD_FINALIZE
    /\ note.mailbox[1].payload = << 1 >>

FrameVerified(b) == HeaderOK(b) /\ LengthOK(b) /\ ChecksumOK(b)

\* C12: a notification that fails the header, length or checksum test leaves
\* the Mailbox slot as it was; while a wait is pending it leaves the whole
\* session (position, offset, counters, failure, history, timers, the ack
\* kept by the finalize step) as it was, so the wait is still pending with
\* its own timer; outside a wait only a notification the router took as the
\* activation reply moves the session.
C12_UndecodableLeavesSessionUnchanged ==
    [][(note'.kind = "notification" /\ ~FrameVerified(note'.bytes))
         => /\ pendingAckResolve' = pendingAckResolve
            /\ (pendingAckResolve # NoResolver \/ note'.activation = "none")
                  => UNCHANGED << loopVars, hist, timers, ack, prepVars,
                                  pendingWrites >>]_vars

\* a notification with a wrong checksum byte arrived while a chunk wait was
\* pending, and the wait is still pending
C12_Witness ==
    /\ Routed
    /\ note.verdict = "BadChecksum"
    /\ note.step = "chunk_wait"
    /\ note.slot = << CMD_CHUNK >>
    /\ pendingAckResolve = << CMD_CHUNK >>
    /\ pc = "chunk_wait"

\* an ack was handed to a pending wait by the step just taken
AckDelivered == Routed /\ note.mailbox # << >> /\ note.step \in WaitPcs

\* C13: a verified ack whose cmd differs from the cmd the pending wait expects
\* resolves that wait at once to an 'unexpected cmd' failure: the slot is
\* empty, the step has left the wait and has taken the failure (size and
\* finalize: Failed; chunk: the attempt is counted as failed).
C13_UnexpectedCmdFailsWait ==
    (AckDelivered /\ note.mailbox[1].cmd # note.slot[1])
    => /\ note.resolved[1].ok = FALSE
       /\ note.resolved[1].reason = "unexpected cmd"
       /\ pendingAckResolve = NoResolver
       /\ pc \notin WaitPcs
       /\ note.step = "size_wait"
             => pc = "failed" /\ hist.outcome["size"] = "failed"
       /\ note.step = "chunk_wait"
             => /\ pc \in {"backoff", "failed"}
                /\ retryCount >= 1
                /\ hist.chunks[offset].failures = retryCount
                /\ ~hist.chunks[offset].acked
       /\ note.step = "fin_wait"
             => /\ pc = "failed"
                /\ hist.outcome["finalize"] = "failed"
                /\ ack = note.resolved[1]

\* a size ack (cmd 0x50) was delivered to a chunk wait, which failed
C13_Witness ==
    /\ AckDelivered
    /\ note.step = "chunk_wait"
    /\ note.mailbox[1].cmd = CMD_SIZE
    /\ pc = "backoff"

\* C14: the Mailbox is one-shot.  A verified ack that arrives while the slot
\* is empty resolves nothing and changes neither the slot nor the session; an
\* ack resolves a wait only if that wait is in the slot, and the resolution
\* empties the slot, so a second delivery finds no wait; and a wait always
\* starts pending, whatever was delivered before it.
C14_MailboxOneShot ==
    [][/\ (note'.kind = "notification" /\ note'.verdict = "Ack"
             /\ pendingAckResolve = NoResolver)
          => /\ note'.resolved = << >>
             /\ pendingAckResolve' = NoResolver
             /\ UNCHANGED << loopVars, hist, timers, ack, prepVars,
                             pendingWrites >>
       /\ (note'.kind = "notification" /\ note'.resolved # << >>)
          => /\ pendingAckResolve # NoResolver
             /\ pendingAckResolve' = NoResolver
       /\ (pc \notin WaitPcs /\ pc' \in WaitPcs)
          => pendingAckResolve' = << ExpectedCmd(pc') >>]_vars

\* a second size ack arrives after the first one resolved the size wait
C14_Witness ==
    /\ Routed
    /\ note.verdict = "Ack"
    /\ note.slot = NoResolver
    /\ decodeOTA(note.bytes).cmd = CMD_SIZE
    /\ note.step = "chunk_write"
    /\ hist.writes["size"] = 1
    /\ pc = "chunk_write"

\* C15: routing is exclusive.  No notification both resolves the Mailbox wait
\* and is handed to the generic response parser, which clears
\* window.currentCommand.
C15_RoutingExclusive ==
    Routed => ~(/\ note.resolved # << >>
                /\ note.sink
                /\ note.marker # NULL
                /\ currentCommand = NULL)

\* C16: the router trusts a frame only after recomputing its checksum.  A
\* notification whose last byte is not the XOR of the bytes before it neither
\* resolves the activation waiter nor is passed to the response parser as a
\* command response.
C16_RouterVerifiesChecksum ==
    (Routed /\ Len(note.bytes) >= 1 /\ ~ChecksumOK(note.bytes))
    => /\ note.activation = "none"
       /\ ~note.sink

\* the bytes between the 4-byte header and the checksum of a command frame
ReplyPayload(b) == SubSeq(b, 5, Len(b) - 1)

\* a Standard Command Frame with cmd 0x1F
IsActivationFrame(b) ==
    /\ Len(b) >= 5
    /\ b[1] = START_BYTE
    /\ b[3] = IDENTIFIER_BYTE
    /\ b[4] = CMD_ACTIVATE

\* C17: while the activation wait is outstanding, a command frame with cmd
\* 0x1F resolves it: with success iff payload byte 0 is 0x01 (the session
\* goes on to write the size frame), with failure otherwise, an empty payload
\* included (the session fails); the waiter is cleared by the resolution.
\* Once the waiter is cleared, by a reply or by its timeout, a 0x1F frame is
\* not taken as an activation reply and resolves nothing.
C17_ActivationRouting ==
    (Routed /\ IsActivationFrame(note.bytes))
    => /\ otaActivationResolve = FALSE
       /\ note.waiter
          => /\ note.activation \in {"success", "failure"}
             /\ note.activation = "success"
                   <=> (/\ Len(ReplyPayload(note.bytes)) >= 1
                        /\ ReplyPayload(note.bytes)[1] = 1)
             /\ note.step = "activating"
                   => /\ note.activation = "success"
                         => pc = "size_write" /\ hist.outcome["activation"] = "ok"
                      /\ note.activation = "failure"
                         => pc = "failed" /\ hist.outcome["activation"] = "failed"
       /\ ~note.waiter
          => /\ note.activation = "none"
             /\ note.step = "activating" => pc = "activating"

\* a reply with payload 00 has failed the activation
C17_Witness ==
    /\ Routed
    /\ note.bytes = StdReply(CMD_ACTIVATE, << 0 >>)
    /\ note.waiter
    /\ note.activation = "failure"
    /\ pc = "failed"

\* performOTAUpdate was called in the step just taken
Called == note.kind = "call"

\* C18: at most one session is in progress.  A call of performOTAUpdate made
\* while a session is in a non-terminal state writes no frame and changes
\* nothing of the running session: its position, offset, chunk count and retry
\* count, the Mailbox slot, otaInProgress, the timers and the pending writes.
C18_SingleSession ==
    [][(note'.kind = "call" /\ pc \notin {"idle", "completed", "failed"})
         => /\ otaInProgress /\ otaInProgress'
            /\ UNCHANGED << loopVars, prepVars, cmdVars, envVars, hist, timers,
                            pendingAckResolve, otaActivationResolve, ack >>]_vars

\* the call comes while the session waits for a chunk ack
C18_Witness ==
    /\ Called
    /\ note.step = "chunk_wait"
    /\ pc = "chunk_wait"
    /\ otaInProgress
    /\ note.slot = << CMD_CHUNK >>
    /\ pendingAckResolve = << CMD_CHUNK >>

\* a session is in flight
InFlight == pc \notin {"idle", "completed", "failed"}

\* C19: when the connection is torn down while a session is in flight, the
\* session eventually reaches Failed, and it does not reach Completed.
C19_DisconnectFailsSession ==
    /\ (~connected /\ InFlight) ~> (pc = "failed")
    /\ [](~connected /\ InFlight => [](pc # "completed"))

\* the step hands the frame of the command to the transport
CommandWritten == hist'.writes["activation"] = hist.writes["activation"] + 1

\* the step is the 3000 ms callback of sendCommand
RetryTimerFired == \E t \in TimersOf("cmd") : timers' = timers (-) One(t)

\* C20: one invocation of sendCommand writes its frame at most 3 times, the
\* re-sends of the 3000 ms timer and the retries after a rejected write taken
\* together; every write is the same frame; and the 3000 ms timer re-sends
\* only if window.currentCommand still names the command when it fires.
C20_CommandRetryBound ==
    [][/\ hist'.writes["activation"] <= MAX_COMMAND_RETRY + 1
       /\ CommandWritten => hist'.last = ActivationFrame
       /\ (CommandWritten /\ RetryTimerFired)
             => currentCommand = ACTIVATION_NAME]_vars

\* the frame was written three times and the third write is not yet settled
C20_Witness ==
    /\ hist.writes["activation"] = 3
    /\ hist.last = ActivationFrame
    /\ currentCommand = ACTIVATION_NAME
    /\ \E w \in BagToSet(pendingWrites) : w.n = MAX_COMMAND_RETRY

\* the dispatcher has nothing left to do for the command: no write of it is
\* unsettled and none of its callbacks is set
DispatcherStopped ==
    /\ BagToSet(pendingWrites) = {}
    /\ TimersOf("cmd") = {}
    /\ TimersOf("cmdErr") = {}

\* C21: whenever the dispatcher has stopped trying a command (third attempt
\* unanswered, third write rejected, or no frame could be written),
\* window.currentCommand no longer names that command.
C21_MarkerClearedOnGiveUp ==
    DispatcherStopped => currentCommand # ACTIVATION_NAME

\* a command is outstanding and no activation wait is: the state in which the
\* notification just dispatched was met
GenericOutstanding == Routed /\ note.marker # NULL /\ ~note.waiter

\* the frames the router hands to handleOTAAck: 6 bytes or more, first byte
\* 0x73, bytes 1-2 above 5, byte 3 = 0xFF, byte 4 = 0x01
SentinelShape(b) ==
    /\ Len(b) >= 6
    /\ b[1] = START_BYTE
    /\ b[2] + 256 * b[3] > 5
    /\ b[4] = 255
    /\ b[5] = 1

\* C22 as stated: while a command is outstanding and no activation wait is,
\* every notification, whatever its content, clears window.currentCommand and
\* is passed on as the response of that command.
C22_AnyNotificationClearsMarker ==
    GenericOutstanding => (currentCommand = NULL /\ note.sink)

\* C22 amended: the same for every notification that is not one of the frames
\* handed to handleOTAAck.
C22_NonSentinelClearsMarker ==
    (GenericOutstanding /\ ~SentinelShape(note.bytes))
    => (currentCommand = NULL /\ note.sink)

\* the reply to another command is taken as the response of the outstanding one
C22_Witness ==
    /\ GenericOutstanding
    /\ note.marker = ACTIVATION_NAME
    /\ note.bytes = StdReply(3, << 0 >>)
    /\ note.sink
    /\ currentCommand = NULL

\* the chunk frame carries offset off and the min(128, S - off) bytes of the
\* firmware that start at off
CarriesChunk(frame, off) ==
    LET S == Len(Firmware)
        n == IF S - off < 128 THEN S - off ELSE 128
    IN  /\ Len(frame) = n + 10
        /\ frame[4] = CMD_CHUNK
        /\ frame[6] + 256 * frame[7] + 65536 * frame[8] + 16777216 * frame[9] = off
        /\ \A k \in 1..n : frame[9 + k] = Firmware[off + k]

\* the frame written most recently is a chunk frame
LastIsChunk ==
    /\ Len(hist.last) >= 10
    /\ hist.last[3] # IDENTIFIER_BYTE
    /\ hist.last[4] = CMD_CHUNK

\* C23: chunking.  The session uses ceil(S/128) chunks; the chunk frame of
\* index i carries offset 128*(i-1) and the min(128, S - offset) firmware
\* bytes at that offset, on the first write and on every retry; on a completed
\* session the acknowledged chunks cover the bytes 0..S-1 once each, in order.
C23_Chunking ==
    listening
    => LET S == Len(Firmware) IN
       /\ otaTotalChunks * 128 >= S
       /\ (otaTotalChunks - 1) * 128 < S
       /\ \A off \in ChunkOffsets :
             /\ \E i \in 1..otaTotalChunks : off = 128 * (i - 1)
             /\ CarriesChunk(hist.chunks[off].first, off)
       /\ (pc \in {"chunk_write", "chunk_wait"})
             => /\ offset = 128 * chunkIndex
                /\ chunkIndex + 1 <= otaTotalChunks
                /\ offset \in ChunkOffsets
       /\ LastIsChunk
             => /\ \E i \in 1..otaTotalChunks :
                       CarriesChunk(hist.last, 128 * (i - 1))
                /\ (pc \in {"chunk_write", "chunk_wait"})
                      => CarriesChunk(hist.last, offset)
       /\ pc = "completed"
             => /\ ChunkOffsets = {128 * (i - 1) : i \in 1..otaTotalChunks}
                /\ \A off \in ChunkOffsets : hist.chunks[off].acked
                /\ \A k \in 1..S :
                      LET off == 128 * ((k - 1) \div 128) IN
                      hist.chunks[off].first[9 + k - off] = Firmware[k]

\* a firmware of more than 128 bytes was sent as a full chunk and a short one
C23_Witness ==
    /\ pc = "completed"
    /\ Len(Firmware) = MaxFirmwareSize
    /\ otaTotalChunks = 2
    /\ Len(hist.chunks[0].first) = 128 + 10
    /\ Len(hist.chunks[128].first) = MaxFirmwareSize - 128 + 10

\* an encoder has produced its frame
Encoded(f) == codec.phase = "encoded" /\ codec.fn = f

\* C24 as stated: byte 1 of the frame of createCommandMessage is
\* 4 + payload length.
C24_LengthIsFourPlusPayload ==
    Encoded("createCommandMessage")
    => codec.frame[2] = (4 + Len(codec.payload)) % 256

\* C24 amended: byte 1 of the frame of createCommandMessage is 5 + payload
\* length, the number of bytes of the whole frame (its low 8 bits).
C24_LengthIsFrameLength ==
    Encoded("createCommandMessage")
    => /\ codec.frame[2] = (5 + Len(codec.payload)) % 256
       /\ codec.frame[2] = Len(codec.frame) % 256

\* a payload of 2 bytes gives a frame of 7 bytes with length byte 7
C24_Witness ==
    /\ Encoded("createCommandMessage")
    /\ Len(codec.payload) = 2
    /\ codec.frame[2] = 7
    /\ Len(codec.frame) = 7

C26_BitFlipIsChecksumMismatch ==
    (codec.phase = "decoded" /\ codec.damage = "flipped")
    => codec.decoded.status = "BadChecksum"

\* the frame handed to handleNotification had lost its last byte or gained one
Resized == codec.phase = "decoded" /\ codec.damage \in {"truncated", "padded"}

\* C27 as stated: a frame of createBLEOTAFrame with its last byte removed, or
\* with one byte appended, is rejected with 'Length mismatch', whatever the
\* payload length.
C27_ResizeIsLengthMismatch ==
    Resized => codec.decoded.status = "LengthMismatch"

\* C27 amended: it is rejected with 'Length mismatch', except that the frame
\* of an empty payload with its last byte removed, 5 bytes long, is rejected
\* with 'Bad notification header'.
C27_ResizeIsRejected ==
    Resized
    => codec.decoded.status =
          IF codec.damage = "truncated" /\ Len(codec.payload) = 0
          THEN "BadHeader" ELSE "LengthMismatch"

\* a frame with a 2-byte payload lost its last byte
C27_Witness ==
    /\ Resized
    /\ codec.damage = "truncated"
    /\ Len(codec.payload) = 2
    /\ Len(codec.frame) = 7
    /\ codec.decoded.status = "LengthMismatch"

\* the analyzer has run on the buffer
Analyzed == codec.phase \in {"analyzed", "framed"}

\* the plain sum of the bytes of a sequence (taken by halves to keep the
\* evaluation shallow)
RECURSIVE PlainSum(_)
PlainSum(bytes) ==
    IF Len(bytes) = 0 THEN 0
    ELSE IF Len(bytes) = 1 THEN bytes[1]
    ELSE LET mid == Len(bytes) \div 2
         IN  PlainSum(SubSeq(bytes, 1, mid))
             + PlainSum(SubSeq(bytes, mid + 1, Len(bytes)))

\* C28: the checksum of analyzeFirmware is (2^32 - 1) - (sum of all bytes
\* mod 2^32), a value of 0..2^32-1 (stated on its 16-bit halves), for every
\* buffer including the empty one; it is 0xFFFFFFF9 for the bytes 01 02 03;
\* bytes 4-7 of the size frame's payload are its little-endian encoding.
C28_OnesComplementChecksum ==
    /\ Analyzed =>
          LET sum == PlainSum(codec.buf.run)
              cs == codec.analysis.checksum
          IN  /\ cs.hi \in 0..65535
              /\ cs.lo \in 0..65535
              /\ cs.hi = 65535 - ((sum \div 65536) % 65536)
              /\ cs.lo = 65535 - (sum % 65536)
              /\ codec.buf = Buffer(3, 0, << 1, 2, 3 >>)
                     => cs = Word32(65535, 65529)
              /\ codec.buf.length = 0 => cs = Word32(65535, 65535)
    /\ codec.phase = "framed" =>
          LET f == codec.frame
              cs == codec.analysis.checksum
          IN  /\ Len(f) = 14
              /\ f[10] + 256 * f[11] = cs.lo
              /\ f[12] + 256 * f[13] = cs.hi

\* the size frame of a 300-byte buffer of 0xFF, whose sum 76500 needs the
\* upper half: checksum 0xFFFED52B, sent as 2B D5 FE FF
C28_Witness ==
    /\ codec.phase = "framed"
    /\ codec.buf = Buffer(300, 0, [k \in 1..300 |-> 255])
    /\ codec.analysis.checksum = Word32(65534, 54571)
    /\ SubSeq(codec.frame, 10, 13) = << 43, 213, 254, 255 >>

\* the ten bytes of the buffer from offset 0x50004 on
SignatureWindow == BufSlice(codec.buf, signatureOffset, signatureOffset + 10)

\* the window holds the six characters 'VenusC' in a row
WindowHasVenusC ==
    \E i \in 1..5 : \A j \in 1..6 : SignatureWindow[i + j - 1] = VenusC[j]

\* C29: the class follows the priority rule. A buffer longer than
\* 0x50004 + 10 is classified by its 10-byte window at 0x50004 alone
\* ('VenusC' in it: EMS/Control; else a byte other than 0x00 and 0xFF: BMS,
\* signature absent; else Unknown, signature area empty); any other buffer
\* by its length (>= 32768: BMS by size; 1024..32767: Unknown small, with a
\* warning; below 1024: Unknown very small, with a stronger warning).
\* Every buffer gets exactly one class.
C29_ClassificationPriority ==
    Analyzed =>
       LET L == codec.buf.length
           a == codec.analysis
       IN  /\ a.type \in FirmwareTypes
           /\ a.size = L
           /\ L > signatureOffset + 10 =>
                 /\ Len(SignatureWindow) = 10
                 /\ a.warning = WARN_NONE
                 /\ a.type =
                       IF WindowHasVenusC THEN TYPE_EMS
                       ELSE IF \E k \in 1..10 : /\ SignatureWindow[k] # 0
                                                /\ SignatureWindow[k] # 255
                            THEN TYPE_BMS_NO_SIGNATURE
                            ELSE TYPE_UNKNOWN_EMPTY_AREA
           /\ (L <= signatureOffset + 10 /\ L >= 32768) =>
                 a.type = TYPE_BMS_BY_SIZE /\ a.warning = WARN_NONE
           /\ (L >= 1024 /\ L < 32768) =>
                 a.type = TYPE_UNKNOWN_SMALL /\ a.warning = WARN_SMALL
           /\ L < 1024 =>
                 /\ a.type = TYPE_UNKNOWN_VERY_SMALL
                 /\ a.warning = WARN_VERY_SMALL
                 /\ a.warning # WARN_SMALL

\* a buffer of 0x50010 bytes with "VenusC0000" at 0x50004 is EMS/Control
C29_Witness ==
    /\ codec.phase = "analyzed"
    /\ codec.buf = Buffer(signatureOffset + 12, signatureOffset,
                          VenusC \o << 48, 48, 48, 48 >>)
    /\ codec.analysis.type = TYPE_EMS

\* in the step taken, a wait of the step `step` was resolved with a verified
\* ack of cmd `cmd`
AckResolvedStep(step, cmd) ==
    /\ note'.kind = "notification"
    /\ note'.step = step
    /\ pc = step
    /\ note'.resolved # << >>
    /\ note'.resolved[1].ok
    /\ note'.resolved[1].cmd = cmd

\* C30: the echo in an ack is advisory. When the wait for a chunk ack is
\* resolved with a verified ack of cmd 0x51, the transfer goes on to the
\* next offset with the next chunk or the finalize frame, whatever the ack's
\* payload is; when the wait for the size ack is resolved with a verified ack
\* of cmd 0x50, the transfer goes on to offset 0, whatever the payload is.
\* Neither counts a retry nor fails the session.
C30_EchoIsAdvisory ==
    [][ /\ AckResolvedStep("chunk_wait", CMD_CHUNK) =>
              /\ offset' = offset + Min(otaChunkSize, Len(Firmware) - offset)
              /\ chunkIndex' = chunkIndex + 1
              /\ pc' = IF offset' < Len(Firmware) THEN "chunk_write"
                                                  ELSE "fin_write"
              /\ pc' = "chunk_write" => retryCount' = 0
              /\ failReason' = failReason
        /\ AckResolvedStep("size_wait", CMD_SIZE) =>
              /\ offset' = 0
              /\ chunkIndex' = 0
              /\ pc' = IF Len(Firmware) > 0 THEN "chunk_write" ELSE "fin_write"
              /\ failReason' = failReason
      ]_vars

\* the ack of the first chunk echoed offset 0x1234 and the second chunk was
\* sent; the size ack before it had echoed a checksum of zero
C30_Witness ==
    /\ note.kind = "notification"
    /\ note.step = "chunk_wait"
    /\ note.bytes = DeviceAck(CMD_CHUNK, OTA_RESERVED, LE32(4660))
    /\ note.resolved # << >>
    /\ pc = "chunk_write"
    /\ offset = PROTOCOL_CHUNK_SIZE
    /\ retryCount = 0
    /\ hist.last = ChunkFrames[Firmware][otaChunkSize][PROTOCOL_CHUNK_SIZE]

\* C31: when the size ack's payload has at least 8 bytes, the comparison
\* reports a match exactly when payload bytes 4-7 are the four checksum bytes
\* that were sent, for every 32-bit checksum, also those of 2^31 and above,
\* and a mismatch exactly when they differ.
C31_EchoComparisonExact ==
    (codec.phase = "compared" /\ Len(codec.payload) >= 8)
    => LET same == SubSeq(codec.payload, 5, 8) = SubSeq(codec.frame, 10, 13)
       IN  /\ same <=> codec.log = "verified"
           /\ ~same <=> codec.log = "mismatch"

\* the number of pending waitForAck timers whose wait is still unsettled
\* (n = 1) or was settled before (n = 0)
AckTimers(tm, n) == CopiesIn(Timer("ack", n, 0), tm)

\* in the step taken, the timer of a wait that was already resolved fired
StaleAckTimerFires == AckTimers(timers', 0) < AckTimers(timers, 0)

\* in the step taken, the router handed an ack to the pending wait
AckSettlesWait ==
    /\ AckTimers(timers', 1) = AckTimers(timers, 1) - 1
    /\ AckTimers(timers', 0) = AckTimers(timers, 0) + 1

\* in the step taken, the timer of the pending wait fired
OwnAckTimerFires ==
    /\ AckTimers(timers', 1) = AckTimers(timers, 1) - 1
    /\ AckTimers(timers', 0) = AckTimers(timers, 0)

\* C32: a pending Mailbox slot is emptied only by the router delivering an ack
\* to its wait or by the timeout of that same wait; the timer of an earlier
\* wait that an ack had resolved leaves the slot as it is when it fires.
C32_SlotClearedByOwnWaitOnly ==
    [][ /\ (pendingAckResolve # NoResolver /\ pendingAckResolve' = NoResolver)
            => (AckSettlesWait \/ OwnAckTimerFires)
        /\ StaleAckTimerFires => pendingAckResolve' = pendingAckResolve
      ]_vars

\* the notification of the step taken was a verified ack with the cmd of the
\* frame whose write had been accepted, and its step was waiting for it
AckForAcceptedWrite ==
    /\ note.kind = "notification"
    /\ note.step \in WaitPcs
    /\ note.verdict = "Ack"
    /\ decodeOTA(note.bytes).cmd = ExpectedCmd(note.step)

\* C33: an ack that arrives after the write of the size, chunk or finalize
\* frame was accepted is received by the wait for that frame: the Mailbox
\* slot is in place and the ack is handed to its resolver.
C33_AckAfterWriteIsReceived ==
    AckForAcceptedWrite
    => /\ note.slot = << ExpectedCmd(note.step) >>
       /\ note.resolved # << >>
       /\ note.resolved[1].ok

\* C34: once the session is Completed or Failed, no frame is written to the
\* transport any more; in particular the activation frame is not sent again
\* by the retry timer of sendCommand after an activation timeout.
C34_NoWriteAfterSessionEnd ==
    [][ (pc \in {"completed", "failed"}) => hist'.writes = hist.writes ]_vars

\* in the step taken, a timer left over from an ended session or from a
\* settled wait fired
LeftOverTimerFires ==
    \E k \in {"ack", "activation"} :
        CopiesIn(Timer(k, 0, 0), timers') < CopiesIn(Timer(k, 0, 0), timers)

\* C35: while a fresh session waits for its activation reply, the timers the
\* previous session left behind (its 5000 ms activation timeout, its ack
\* timeouts) neither clear nor resolve the new activation waiter or the
\* Mailbox slot.  (In a first session no left-over timer is pending during
\* the activation wait.)
C35_FreshSessionUndisturbed ==
    [][ (pc = "activating" /\ LeftOverTimerFires)
        => /\ otaActivationResolve' = otaActivationResolve
           /\ pendingAckResolve' = pendingAckResolve
      ]_vars

====
